---- MODULE Spec2Model ----
(***************************************************************************)
(* Model of the @openmiddleware/chain execution engine                     *)
(* (packages/core/src/chain.ts, context.ts, response.ts, errors.ts) and of *)
(* the handlers the unit tests and the documentation run through it.       *)
(*                                                                         *)
(* One chain (createChain) is modelled: its handler list, its              *)
(* `initialized` flag, and up to two handle() calls in flight.  A call is  *)
(* an async function: it advances from one await to the next, and calls    *)
(* interleave only at those points.  Every action below is one such        *)
(* stretch of synchronous code.                                            *)
(***************************************************************************)
EXTENDS Integers, Sequences, FiniteSets, TLC

\* ------------------------------------------------------------------ bounds
\* Longest handler list built with use() when calls run one after another.
MaxHandlers == 3
\* handle() calls made in one behaviour when calls run one after another.
MaxCalls == 3
\* Longest handler list built with use() when two calls overlap.
MaxConcHandlers == 2
\* handle() calls made in one behaviour when two calls overlap.
MaxConcCalls == 2

\* The handle() calls that can be in flight together.  Sequential
\* behaviours only use slot 1.
Slots == {1, 2}

VARIABLES
  middlewares,  \* chain.ts:34   the handler list, a sequence of Middleware records
  initialized,  \* chain.ts:35   the one-shot "onInit hooks have run" flag
  calls,        \* number of handle() calls made so far (their requests are numbered by it)
  pc,           \* per call: "idle", "init", "exec", "resolved", "rejected"
  initPos,      \* per call: position of the for-of loop of initializeMiddlewares
  lenAtCall,    \* per call: length of the handler list when handle() was called
  ctxOf,        \* per call: address of the Context created for it (0: none yet)
  heap,         \* the live Context objects, by address
  index,        \* per call: the `index` closure variable of executeChain
  stack,        \* per call: handler invocations that have not settled yet, outermost first
  ret,          \* per call: settlement of the innermost next() promise, not yet consumed
  args,         \* per call: the arguments of handle(): request and initialState
  result,       \* per call: what the handle() promise settled with
  order,        \* per call: the events a test would push into its `order` array
  initLog       \* the handlers whose onInit hook has run, in the order run

vars == <<middlewares, initialized, calls, pc, initPos, lenAtCall, ctxOf, heap,
          index, stack, ret, args, result, order, initLog>>

\* The framework adapters (packages/express, koa, hono, fastify and
\* core/src/adapter.ts): one native handler invocation at a time.
VARIABLES
  acall,        \* the invocation: adapter, its passThrough option, the chain's sole handler, the native request
  apc,          \* its position: "idle", "awaiting" (at `await chain.handle`), "done"
  fetchRequest, \* the Fetch Request the adapter built from the native request
  host          \* what the host framework has seen of the invocation

adapterVars == <<acall, apc, fetchRequest, host>>

\* The timeout middleware (middlewares/timeout.ts) in front of a slow
\* handler: one handle() call, its two timers and its two continuations.
VARIABLES
  tcall,    \* the call: timeout's options, the slow handler's delay and outcome
  tpc,      \* handle(): "idle", "racing" (timeout awaits Promise.race), "settled"
  elapsed,  \* fake-timer milliseconds since handle() was called
  timer,    \* timeout's setTimeout: "none", "armed", "fired", "cleared"
  timedOut, \* the `timedOut` variable of the timeout handler
  race,     \* what Promise.race settled with, while the handler has not resumed
  down,     \* the slow handler: "none", "sleeping", "resumed", "finished", "failed"
  tctx,     \* the response builder of the call's Context
  tresult,  \* what the handle() promise settled with
  tlog      \* the handlers invoked, each with whether handle() had settled

timeoutVars == <<tcall, tpc, elapsed, timer, timedOut, race, down, tctx,
                 tresult, tlog>>

\* A MemoryStore (stores/memory.ts) and the middleware that owns it
\* (rate-limit.ts, the cache middleware), with requests handled one after
\* another.
VARIABLES
  now,      \* Date.now(), in fake-timer milliseconds
  store,    \* MemoryStore.store: the Map, as a function from keys to entries
  cfg,      \* the options the middleware was created with
  last,     \* the last store operation or request, and what it returned
  hist      \* per key, what the claims refer to: the last set() / window / cached reply

storeVars == <<now, store, cfg, last, hist>>

\* Two chains, an original and its clone: the handler arrays allocated so
\* far, the array each chain holds, the handlers each chain was given by
\* use(), and the handlers its last handle() ran.
VARIABLES
  arrays,
  chainOf,
  usedOn,
  executed

cloneVars == <<arrays, chainOf, usedOn, executed>>

\* One response builder and the replies build() has returned since the
\* builder was last written to, each with the builder before and after.
VARIABLES
  builder,
  snapshots

builderVars == <<builder, snapshots>>

\* createContext on its own: the headers of the request it is given, the
\* meta it derives, and the identifiers generateUUID has returned so far.
VARIABLES
  mrequest,
  meta,
  issued

metaVars == <<mrequest, meta, issued>>

\* bodyParser on its own: the request it is given, its limit option, and
\* what its handler did.
VARIABLES
  bpRequest,
  bpLimit,
  bpOutcome

parserVars == <<bpRequest, bpLimit, bpOutcome>>

\* rateLimit with several requests in flight on one MemoryStore: the entry
\* objects the handler has allocated, and each request's position and
\* local variables.
VARIABLES
  objects,
  inflight

raceVars == <<objects, inflight>>

\* The state outside the chain engine, adapters, timers and stores.
more == <<cloneVars, builderVars, metaVars, parserVars, raceVars>>

\* The state that the chain engine never touches.
outside == <<adapterVars, timeoutVars, storeVars, more>>

\* ------------------------------------------------------- response builder
\* createResponseBuilder(): status 200, no headers, null body.
\* Header names are case-insensitive (Headers); they are kept in lower case.
createResponseBuilder ==
  [status |-> 200, headers |-> {}, body |-> "null"]

setStatus(b, code) == [b EXCEPT !.status = code]

setHeader(b, name, value) ==
  [b EXCEPT !.headers = {h \in @ : h[1] # name} \cup {<<name, value>>}]

json(b, data) ==
  [setHeader(b, "content-type", "application/json; charset=utf-8")
     EXCEPT !.body = data]

\* build(): new Response(_body, {status, headers}) copies the three fields.
build(b) == [status |-> b.status, headers |-> b.headers, body |-> b.body]

\* "No Response": the value of a Response-typed field that holds none.
NoResponse == [status |-> 0, headers |-> {}, body |-> "null"]

\* ------------------------------------------------------------------ errors
\* An Error object: its class, the statusCode of a MiddlewareError (0 for
\* other classes), the response a ShortCircuitError carries, and the
\* handler whose code created it (0: the engine).
ErrorOf(class, statusCode, response, origin) ==
  [class |-> class, statusCode |-> statusCode, response |-> response,
   origin |-> origin]

ShortCircuitError(response) == ErrorOf("ShortCircuitError", 0, response, 0)

NoError == ErrorOf("none", 0, NoResponse, 0)

\* error instanceof MiddlewareError
isMiddlewareError(e) == e.statusCode # 0

\* How a promise settles: fulfilled ("ok") or rejected ("throw").  A handler
\* promise fulfils with a MiddlewareResult {done, response}; next() and
\* executeChain fulfil with void.
Fulfilled(done, response) ==
  [t |-> "ok", done |-> done, response |-> response, error |-> NoError]

Rejected(e) ==
  [t |-> "throw", done |-> FALSE, response |-> NoResponse, error |-> e]

Pending ==
  [t |-> "pending", done |-> FALSE, response |-> NoResponse, error |-> NoError]

\* ----------------------------------------------------------------- context
\* createContext(request, initialState): a fresh response builder and a
\* shallow copy of the initial state.  The state bag is a set of
\* <<key, value>> pairs.
createContext(request, initialState) ==
  [request |-> request,
   response |-> createResponseBuilder,
   state |-> initialState]

SetState(state, key, value) ==
  {p \in state : p[1] # key} \cup {<<key, value>>}

\* ---------------------------------------------------------------- handlers
\* The handlers given to use(): the ones the unit tests and the
\* documentation run.  Each is described by the code it runs from its entry
\* to its first `await next()` or to its return (Start), and by the code it
\* runs once that await has settled (Resume).  `k` is the handler's position.
Kinds == {"wrap", "setter", "noop", "stop", "throw", "errorHandler"}

\* "wrap", entry:   ctx.state.user = <user of the request>; await next();
wrapStart(ctx) ==
  [ctx |-> [ctx EXCEPT !.state = SetState(@, "user", ctx.request.url)],
   callsNext |-> TRUE, settle |-> Pending]

\* "wrap", after the await: no try/catch, so a rejected next() rejects the
\* handler with the same error; otherwise it sets a header and returns
\* {done: false}.
wrapResume(ctx, s) ==
  IF s.t = "throw"
  THEN [ctx |-> ctx, settle |-> Rejected(s.error), caught |-> FALSE]
  ELSE [ctx |-> [ctx EXCEPT !.response = setHeader(@, "x-post", "1")],
        settle |-> Fulfilled(FALSE, NoResponse), caught |-> FALSE]

\* "setter": ctx.response.setStatus(201).json({ok: true}); return {done: false}
\* without calling next().
setterStart(ctx) ==
  [ctx |-> [ctx EXCEPT !.response = json(setStatus(@, 201), "{ok:true}")],
   callsNext |-> FALSE, settle |-> Fulfilled(FALSE, NoResponse)]

\* "noop": return {done: false} without calling next() or touching ctx.
noopStart(ctx) ==
  [ctx |-> ctx, callsNext |-> FALSE, settle |-> Fulfilled(FALSE, NoResponse)]

\* "stop": ctx.response.setStatus(401).json({error: 'Unauthorized'});
\*         return {done: true, response: ctx.response.build()}
stopStart(ctx) ==
  LET c == [ctx EXCEPT !.response = json(setStatus(@, 401), "{error:Unauthorized}")]
  IN  [ctx |-> c, callsNext |-> FALSE,
       settle |-> Fulfilled(TRUE, build(c.response))]

\* "throw": throw new Error('Test error')
throwStart(ctx, k) ==
  [ctx |-> ctx, callsNext |-> FALSE,
   settle |-> Rejected(ErrorOf("Error", 0, NoResponse, k))]

\* errorHandler() with its default options (catch: true, format: 'json'):
\* try { await next(); return {done: false} } catch (error) { ... }
errorHandlerStart(ctx) ==
  [ctx |-> ctx, callsNext |-> TRUE, settle |-> Pending]

\* sendError(ctx, status, body, 'json')
sendError(ctx, status, body) ==
  [ctx EXCEPT !.response = json(setStatus(@, status), body)]

\* A catch block that answers every error with the 500 of an unknown error.
errorHandlerCatchAsUnknown(ctx, err) ==
  LET c == sendError(ctx, 500, "{error:Internal Server Error,code:INTERNAL_ERROR,status:500}")
  IN  [ctx |-> c, settle |-> Fulfilled(TRUE, build(c.response)), caught |-> TRUE]

\* The catch block of errorHandler: whatever `await next()` threw is an
\* Error; a MiddlewareError is formatted with its own statusCode, any other
\* Error becomes a 500 because catchAll is true.  Both return
\* {done: true, response: ctx.response.build()}.
errorHandlerCatch(ctx, err) ==
  LET c == IF isMiddlewareError(err)
           THEN sendError(ctx, err.statusCode, "{error,code}")
           ELSE sendError(ctx, 500, "{error:Internal Server Error,code:INTERNAL_ERROR,status:500}")
  IN  [ctx |-> c, settle |-> Fulfilled(TRUE, build(c.response)), caught |-> TRUE]

errorHandlerResume(ctx, s) ==
  IF s.t = "throw"
  THEN errorHandlerCatch(ctx, s.error)
  ELSE [ctx |-> ctx, settle |-> Fulfilled(FALSE, NoResponse), caught |-> FALSE]

\* "throwMiddlewareError":
\*   throw new MiddlewareError('Custom error', 'CUSTOM_CODE', 400)
throwMiddlewareErrorStart(ctx, k) ==
  [ctx |-> ctx, callsNext |-> FALSE,
   settle |-> Rejected(ErrorOf("MiddlewareError", 400, NoResponse, k))]

\* errorHandler({catch: false}): a MiddlewareError is formatted as with the
\* default options, any other Error is thrown again.
errorHandlerRethrowResume(ctx, s) ==
  IF s.t = "ok"
  THEN [ctx |-> ctx, settle |-> Fulfilled(FALSE, NoResponse), caught |-> FALSE]
  ELSE IF isMiddlewareError(s.error)
  THEN errorHandlerCatch(ctx, s.error)
  ELSE [ctx |-> ctx, settle |-> Rejected(s.error), caught |-> TRUE]

\* LOG_LEVELS and getLogLevelForStatus of logger.
LOG_LEVELS == [debug |-> 0, info |-> 1, warn |-> 2, error |-> 3]

getLogLevelForStatus(status) ==
  IF status >= 500 THEN "error" ELSE IF status >= 400 THEN "warn" ELSE "info"

\* logger() with its default options (level: 'info', no skip), entry:
\* const startTime = Date.now(); await next();
loggerStart(ctx) ==
  [ctx |-> ctx, callsNext |-> TRUE, settle |-> Pending]

\* logger, after the await: there is no try/catch or finally around
\* `await next()`, so a rejected next() rejects the handler before any
\* entry is built; otherwise the entry (here its status) is handed to
\* output() unless its level is below the configured one.
loggerResume(ctx, s) ==
  IF s.t = "throw"
  THEN [ctx |-> ctx, settle |-> Rejected(s.error), caught |-> FALSE,
        output |-> <<>>]
  ELSE [ctx |-> ctx, settle |-> Fulfilled(FALSE, NoResponse), caught |-> FALSE,
        output |-> IF LOG_LEVELS[getLogLevelForStatus(ctx.response.status)]
                        < LOG_LEVELS["info"]
                   THEN <<>> ELSE <<ctx.response.status>>]

\* "twice", entry:   await next();
twiceStart(ctx) ==
  [ctx |-> ctx, callsNext |-> TRUE, settle |-> Pending]

\* "twice", after the first await: no try/catch; when the await returned
\* the handler goes on to a second `await next()`.
twiceResume(ctx, s) ==
  IF s.t = "throw"
  THEN [ctx |-> ctx, settle |-> Rejected(s.error), caught |-> FALSE,
        callsNext |-> FALSE]
  ELSE [ctx |-> ctx, settle |-> Pending, caught |-> FALSE, callsNext |-> TRUE]

\* "twice", after the second await: return {done: false}.
twiceAgain(ctx, s) ==
  IF s.t = "throw"
  THEN [ctx |-> ctx, settle |-> Rejected(s.error), caught |-> FALSE]
  ELSE [ctx |-> ctx, settle |-> Fulfilled(FALSE, NoResponse), caught |-> FALSE]

\* middleware.handler(ctx, next), up to its first await or its return.
Start(kind, ctx, k) ==
  CASE kind = "wrap"         -> wrapStart(ctx)
    [] kind = "setter"       -> setterStart(ctx)
    [] kind = "noop"         -> noopStart(ctx)
    [] kind = "stop"         -> stopStart(ctx)
    [] kind = "throw"        -> throwStart(ctx, k)
    [] kind = "errorHandler" -> errorHandlerStart(ctx)
    [] kind = "errorHandlerRethrow" -> errorHandlerStart(ctx)
    [] kind = "throwMiddlewareError" -> throwMiddlewareErrorStart(ctx, k)
    [] kind = "logger"       -> loggerStart(ctx)
    [] kind = "twice"        -> twiceStart(ctx)

\* middleware.handler(ctx, next), from the settled `await next()` on.
Resume(kind, ctx, s) ==
  CASE kind = "wrap"         -> wrapResume(ctx, s)
    [] kind = "errorHandler" -> errorHandlerResume(ctx, s)
    [] kind = "errorHandlerRethrow" -> errorHandlerRethrowResume(ctx, s)
    [] kind = "logger"       -> loggerResume(ctx, s)
    [] kind = "twice"        -> twiceResume(ctx, s)

\* middleware.handler(ctx, next), from its second settled `await next()` on.
ResumeAgain(kind, ctx, s) ==
  CASE kind = "twice"        -> twiceAgain(ctx, s)

\* ------------------------------------------------------------------- chain
\* What use() is called with: an async function of one of the kinds, or the
\* tests' Middleware object {name: 'init-once', onInit, handler}.
UseInputs ==
  [isFunction : {TRUE}, name : {"fn"}, kind : Kinds, onInit : {FALSE}]
    \cup {[isFunction |-> FALSE, name |-> "init-once", kind |-> "wrap",
           onInit |-> TRUE]}

\* use(mw): a function is wrapped as {name: `anonymous-${length}`, handler};
\* a Middleware object is pushed as it is.  use(a, b) is use(a) then use(b).
\* `limit` bounds the list.
Use(mw, limit) ==
  /\ Len(middlewares) < limit
  /\ middlewares' =
       Append(middlewares,
              IF mw.isFunction
              THEN [name |-> <<"anonymous", Len(middlewares)>>,
                    kind |-> mw.kind, onInit |-> FALSE]
              ELSE [name |-> <<mw.name>>, kind |-> mw.kind, onInit |-> mw.onInit])
  /\ UNCHANGED <<outside, initialized, calls, pc, initPos, lenAtCall, ctxOf, heap,
                 index, stack, ret, args, result, order, initLog>>

\* next() with the handler taken by middlewares[++index]: the first handler
\* is skipped and the last call falls off the end of the list.
nextPreIncrement(idx, stk) ==
  IF idx + 1 >= Len(middlewares)
  THEN [index |-> idx, stack |-> stk, ret |-> Fulfilled(FALSE, NoResponse)]
  ELSE [index |-> idx + 1,
        stack |-> Append(stk, [mw |-> idx + 2, at |-> "start"]),
        ret |-> Pending]

\* next() of executeChain, called with the closure's `index` at idx and the
\* unsettled invocations stk: past the end it returns at once; otherwise it
\* takes middlewares[index++] and invokes its handler.
next(idx, stk) ==
  IF idx >= Len(middlewares)
  THEN [index |-> idx, stack |-> stk, ret |-> Fulfilled(FALSE, NoResponse)]
  ELSE [index |-> idx + 1,
        stack |-> Append(stk, [mw |-> idx + 1, at |-> "start"]),
        ret |-> Pending]

\* The rest of next() once `await middleware.handler(ctx, next)` settled
\* with s: a thrown error propagates, {done: true} is turned into a thrown
\* ShortCircuitError, {done: false} lets next() return.
nextSettle(s) ==
  IF s.t = "throw" THEN s
  ELSE IF s.done THEN Rejected(ShortCircuitError(s.response))
  ELSE Fulfilled(FALSE, NoResponse)

\* The request of the c-th call: new Request('http://localhost/<c>').
RequestOf(c) == [method |-> "GET", url |-> c]

\* The arguments of a slot no call occupies.
NoArgs == [request |-> [method |-> "GET", url |-> 0], initialState |-> {}]

\* The initial state handle() is called with for the c-th call: the default
\* {} and the tests' {count: 5}, in turn.
InitialStateOf(c) == IF c % 2 = 0 THEN {<<"count", 5>>} ELSE {}

\* One Context object handed to every call.
SharedAddress(request) == 1

\* The address of the Context of the call whose request is `request`.  The
\* object literal of createContext is a new object on every call: no two
\* calls get the same address.
NewAddress(request) == request.url

\* createContext and the call of executeChain that follows it in handle():
\* index starts at 0 and next() is called once.
Execute(r, a) ==
  LET x == NewAddress(a.request)
      n == next(0, <<>>)
  IN  /\ pc' = [pc EXCEPT ![r] = "exec"]
      /\ ctxOf' = [ctxOf EXCEPT ![r] = x]
      /\ heap' = [y \in DOMAIN heap \cup {x} |->
                    IF y = x THEN createContext(a.request, a.initialState)
                    ELSE heap[y]]
      /\ index' = [index EXCEPT ![r] = n.index]
      /\ stack' = [stack EXCEPT ![r] = n.stack]
      /\ ret' = [ret EXCEPT ![r] = n.ret]

\* chain.handle(request, initialState), up to its first await: with the
\* flag unset it enters initializeMiddlewares, otherwise it creates the
\* Context and starts the chain.  `limit` bounds the number of calls.
Handle(r, limit) ==
  LET a == [request |-> RequestOf(calls + 1),
            initialState |-> InitialStateOf(calls + 1)]
  IN  /\ pc[r] = "idle"
      /\ calls < limit
      /\ calls' = calls + 1
      /\ args' = [args EXCEPT ![r] = a]
      /\ lenAtCall' = [lenAtCall EXCEPT ![r] = Len(middlewares)]
      /\ IF initialized
         THEN /\ Execute(r, a)
              /\ UNCHANGED initPos
         ELSE /\ pc' = [pc EXCEPT ![r] = "init"]
              /\ initPos' = [initPos EXCEPT ![r] = 1]
              /\ UNCHANGED <<ctxOf, heap, index, stack, ret>>
      /\ UNCHANGED <<outside, middlewares, initialized, result, order, initLog>>

\* The loop of initializeMiddlewares with a hook that has already run left
\* out.
InitStepSkipsDone(r) ==
  /\ pc[r] = "init"
  /\ initPos[r] <= Len(middlewares)
  /\ initLog' = IF /\ middlewares[initPos[r]].onInit
                   /\ \A p \in 1..Len(initLog) : initLog[p] # initPos[r]
                THEN Append(initLog, initPos[r])
                ELSE initLog
  /\ initPos' = [initPos EXCEPT ![r] = @ + 1]
  /\ UNCHANGED <<outside, middlewares, initialized, calls, pc, lenAtCall, ctxOf, heap,
                 index, stack, ret, args, result, order>>

\* The Middleware object {name: 'init-fails', onInit, handler} whose hook
\* counts its run and throws.
hookThrows(mw) == mw.onInit /\ mw.name = <<"init-fails">>

\* One iteration of the loop of initializeMiddlewares: `await mw.onInit()`
\* when the handler has the hook.  The hook of the tests counts its runs.
\* A hook that throws rejects initializeMiddlewares and with it handle(),
\* which has no try block around that await.
InitStep(r) ==
  /\ pc[r] = "init"
  /\ initPos[r] <= Len(middlewares)
  /\ initLog' = IF middlewares[initPos[r]].onInit
                THEN Append(initLog, initPos[r])
                ELSE initLog
  /\ IF hookThrows(middlewares[initPos[r]])
     THEN /\ pc' = [pc EXCEPT ![r] = "rejected"]
          /\ result' = [result EXCEPT ![r] =
                          Rejected(ErrorOf("Error", 0, NoResponse, initPos[r]))]
          /\ UNCHANGED initPos
     ELSE /\ initPos' = [initPos EXCEPT ![r] = @ + 1]
          /\ UNCHANGED <<pc, result>>
  /\ UNCHANGED <<outside, middlewares, initialized, calls, lenAtCall, ctxOf, heap,
                 index, stack, ret, args, order>>

\* The flag left as it was once the hooks have run.
FlagLeftUnset == FALSE

\* `initialized = true`, the assignment that follows the hooks in handle().
FlagAfterHooks == TRUE

\* initializeMiddlewares has returned: handle() sets the flag, creates the
\* Context and starts the chain.
InitDone(r) ==
  /\ pc[r] = "init"
  /\ initPos[r] > Len(middlewares)
  /\ initialized' = FlagAfterHooks
  /\ Execute(r, args[r])
  /\ UNCHANGED <<outside, middlewares, calls, initPos, lenAtCall, args, result, order,
                 initLog>>

\* The context of call r.
Ctx(r) == heap[ctxOf[r]]

\* The innermost unsettled handler invocation of call r.
Top(r) == stack[r][Len(stack[r])]

Pop(stk) == SubSeq(stk, 1, Len(stk) - 1)

\* The events of a handler that settles with s: "done" with the response
\* when it returns {done: true, response}, and "exit".
SettleEvents(k, s) ==
  (IF s.t = "ok" /\ s.done THEN <<<<"done", k, s.response>>>> ELSE <<>>)
  \o <<<<"exit", k>>>>

\* `await middleware.handler(ctx, next)` of next(): the handler runs from its
\* entry to its own `await next()` (which invokes the following handler) or
\* to its return or throw (which settles the next() that invoked it).
RunHandler(r) ==
  /\ pc[r] = "exec"
  /\ stack[r] # <<>>
  /\ Top(r).at = "start"
  /\ LET k == Top(r).mw
         h == Start(middlewares[k].kind, Ctx(r), k)
         n == next(index[r], [stack[r] EXCEPT ![Len(stack[r])].at = "await"])
     IN  /\ heap' = [heap EXCEPT ![ctxOf[r]] = h.ctx]
         /\ IF h.callsNext
            THEN /\ index' = [index EXCEPT ![r] = n.index]
                 /\ stack' = [stack EXCEPT ![r] = n.stack]
                 /\ ret' = [ret EXCEPT ![r] = n.ret]
                 /\ order' = [order EXCEPT ![r] = Append(@, <<"enter", k>>)]
            ELSE /\ stack' = [stack EXCEPT ![r] = Pop(@)]
                 /\ ret' = [ret EXCEPT ![r] = nextSettle(h.settle)]
                 /\ order' = [order EXCEPT ![r] =
                                @ \o <<<<"enter", k>>>> \o SettleEvents(k, h.settle)]
                 /\ UNCHANGED index
  /\ UNCHANGED <<outside, middlewares, initialized, calls, pc, initPos, lenAtCall,
                 ctxOf, args, result, initLog>>

\* The events of a handler that resumes after its `await next()`: "after"
\* when the await returned, "catch" when its catch block was entered with a
\* ShortCircuitError, "catchError" when entered with any other error; "log"
\* with the entry when the handler called the logger's output().
ResumeEvents(k, s, h) ==
  (IF s.t = "ok" THEN <<<<"after", k>>>>
   ELSE IF ~h.caught THEN <<>>
   ELSE IF s.error.class = "ShortCircuitError" THEN <<<<"catch", k>>>>
   ELSE <<<<"catchError", k>>>>)
  \o (IF "output" \in DOMAIN h /\ h.output # <<>>
      THEN <<<<"log", k, h.output[1]>>>> ELSE <<>>)
  \o SettleEvents(k, h.settle)

\* The handler of this frame awaits next() once more.
CallsNextAgain(h) == "callsNext" \in DOMAIN h /\ h.callsNext

\* The `await next()` of the innermost handler has settled: the handler runs
\* to its return or throw, which settles the next() that invoked it, or to
\* another `await next()`, which calls the same closure with the same
\* `index` variable.
ResumeHandler(r) ==
  /\ pc[r] = "exec"
  /\ stack[r] # <<>>
  /\ Top(r).at \in {"await", "again"}
  /\ ret[r].t # "pending"
  /\ LET k == Top(r).mw
         h == IF Top(r).at = "await"
              THEN Resume(middlewares[k].kind, Ctx(r), ret[r])
              ELSE ResumeAgain(middlewares[k].kind, Ctx(r), ret[r])
         n == next(index[r], [stack[r] EXCEPT ![Len(stack[r])].at = "again"])
     IN  /\ heap' = [heap EXCEPT ![ctxOf[r]] = h.ctx]
         /\ IF CallsNextAgain(h)
            THEN /\ index' = [index EXCEPT ![r] = n.index]
                 /\ stack' = [stack EXCEPT ![r] = n.stack]
                 /\ ret' = [ret EXCEPT ![r] = n.ret]
                 /\ order' = [order EXCEPT ![r] = Append(@, <<"after", k>>)]
            ELSE /\ stack' = [stack EXCEPT ![r] = Pop(@)]
                 /\ ret' = [ret EXCEPT ![r] = nextSettle(h.settle)]
                 /\ order' = [order EXCEPT ![r] = @ \o ResumeEvents(k, ret[r], h)]
                 /\ UNCHANGED index
  /\ UNCHANGED <<outside, middlewares, initialized, calls, pc, initPos, lenAtCall,
                 ctxOf, args, result, initLog>>

\* handle() returning a snapshot of the response builder taken before the
\* chain ran.
handleSettleEarlySnapshot(ctx, s) ==
  IF s.t = "ok" THEN Fulfilled(FALSE, build(createResponseBuilder))
  ELSE IF s.error.class = "ShortCircuitError"
       THEN Fulfilled(FALSE, s.error.response)
       ELSE Rejected(s.error)

\* handle() with an unconditional catch: every error of the chain becomes
\* the reply built from the Context.
handleSettleSwallows(ctx, s) ==
  IF s.t = "throw" /\ s.error.class = "ShortCircuitError"
  THEN Fulfilled(FALSE, s.error.response)
  ELSE Fulfilled(FALSE, build(ctx.response))

\* The try/catch of handle() around `await executeChain(...)`: on return the
\* reply is ctx.response.build(); a ShortCircuitError yields the response it
\* carries; any other error is re-thrown.
handleSettle(ctx, s) ==
  IF s.t = "ok" THEN Fulfilled(FALSE, build(ctx.response))
  ELSE IF s.error.class = "ShortCircuitError"
       THEN Fulfilled(FALSE, s.error.response)
       ELSE Rejected(s.error)

\* executeChain has settled: the handle() promise settles.
Settle(r) ==
  /\ pc[r] = "exec"
  /\ stack[r] = <<>>
  /\ ret[r].t # "pending"
  /\ result' = [result EXCEPT ![r] = handleSettle(Ctx(r), ret[r])]
  /\ pc' = [pc EXCEPT ![r] = IF result'[r].t = "ok" THEN "resolved" ELSE "rejected"]
  /\ ret' = [ret EXCEPT ![r] = Pending]
  /\ UNCHANGED <<outside, middlewares, initialized, calls, initPos, lenAtCall, ctxOf,
                 heap, index, stack, args, order, initLog>>

\* The caller has taken the settled promise (`await chain.handle(req)`), the
\* Context is discarded, and the slot is free for the caller's next call.
Release(r) ==
  /\ pc[r] \in {"resolved", "rejected"}
  /\ pc' = [pc EXCEPT ![r] = "idle"]
  /\ heap' = [y \in DOMAIN heap \ {ctxOf[r]} |-> heap[y]]
  /\ ctxOf' = [ctxOf EXCEPT ![r] = 0]
  /\ index' = [index EXCEPT ![r] = 0]
  /\ initPos' = [initPos EXCEPT ![r] = 0]
  /\ lenAtCall' = [lenAtCall EXCEPT ![r] = 0]
  /\ result' = [result EXCEPT ![r] = Pending]
  /\ order' = [order EXCEPT ![r] = <<>>]
  /\ args' = [args EXCEPT ![r] = NoArgs]
  /\ UNCHANGED <<outside, middlewares, initialized, calls, stack, ret, initLog>>

\* createChain(): an empty handler list, the flag unset, no call made.
createChain ==
  /\ middlewares = <<>>
  /\ initialized = FALSE
  /\ calls = 0
  /\ pc = [r \in Slots |-> "idle"]
  /\ initPos = [r \in Slots |-> 0]
  /\ lenAtCall = [r \in Slots |-> 0]
  /\ ctxOf = [r \in Slots |-> 0]
  /\ heap = <<>>
  /\ index = [r \in Slots |-> 0]
  /\ stack = [r \in Slots |-> <<>>]
  /\ ret = [r \in Slots |-> Pending]
  /\ args = [r \in Slots |-> NoArgs]
  /\ result = [r \in Slots |-> Pending]
  /\ order = [r \in Slots |-> <<>>]
  /\ initLog = <<>>

\* No native request: the value of the request fields while no adapter runs.
NoNative ==
  [method |-> "GET", href |-> <<>>, headers |-> {}, wire |-> "",
   body |-> [type |-> "undefined", value |-> ""]]

NoFetchRequest == [method |-> "GET", url |-> <<>>, headers |-> {}, body |-> ""]

\* What the host framework has seen: whether a reply was written and which,
\* whether its continuation was invoked, and the failure handed to it.
NoHost ==
  [wrote |-> FALSE, reply |-> NoResponse, continued |-> FALSE,
   failure |-> NoError]

\* The invocation record while no adapter runs.
NoCall ==
  [adapter |-> "none", passThrough |-> "default", kind |-> "noop",
   req |-> NoNative]

\* No adapter is running.
AdapterIdle ==
  /\ acall = NoCall
  /\ apc = "idle"
  /\ fetchRequest = NoFetchRequest
  /\ host = NoHost

\* The options and the slow handler of a slot no timed call occupies.
NoTimedCall ==
  [duration |-> 1, status |-> 408, handler |-> "none", delay |-> 0,
   ends |-> "returns"]

\* No call runs through the timeout middleware.
TimeoutIdle ==
  /\ tcall = NoTimedCall
  /\ tpc = "idle"
  /\ elapsed = 0
  /\ timer = "none"
  /\ timedOut = FALSE
  /\ race = Pending
  /\ down = "none"
  /\ tctx = createResponseBuilder
  /\ tresult = Pending
  /\ tlog = <<>>

\* The keys used with a store.
StoreKeys == {"a", "b"}

\* A key without an entry in the Map.
NoEntry == [present |-> FALSE, value |-> "", expires |-> FALSE, expiresAt |-> 0]

\* Nothing recorded for a key.
NoHist == [set |-> FALSE, at |-> 0, ttl |-> 0, value |-> ""]

\* No operation made yet.
NoOp == [op |-> "none", key |-> "a", at |-> 0, found |-> FALSE, value |-> ""]

\* new MemoryStore(): an empty Map at time 0, nothing asked of it.
StoreIdle ==
  /\ now = 0
  /\ store = [k \in StoreKeys |-> NoEntry]
  /\ cfg = "none"
  /\ last = NoOp
  /\ hist = [k \in StoreKeys |-> NoHist]

\* No chain has been cloned.
CloneIdle ==
  /\ arrays = <<>>
  /\ chainOf = <<>>
  /\ usedOn = <<>>
  /\ executed = <<>>

\* No response builder is being looked at on its own.
BuilderIdle ==
  /\ builder = [status |-> 0, headers |-> {}, body |-> "null"]
  /\ snapshots = <<>>

\* No Context is being created on its own.
MetaIdle ==
  /\ mrequest = <<>>
  /\ meta = [created |-> FALSE]
  /\ issued = <<>>

\* bodyParser has not been called on its own.
ParserIdle ==
  /\ bpRequest = <<>>
  /\ bpLimit = 0
  /\ bpOutcome = [called |-> FALSE]

\* No request is in flight in rateLimit.
RaceIdle ==
  /\ objects = <<>>
  /\ inflight = <<>>

MoreIdle == CloneIdle /\ BuilderIdle /\ MetaIdle /\ ParserIdle /\ RaceIdle

\* The chain, adapters, timers and stores, all idle.
CoreIdle == createChain /\ AdapterIdle /\ TimeoutIdle /\ StoreIdle
core == <<vars, adapterVars, timeoutVars, storeVars>>

\* What the steps of requests in flight in rateLimit leave alone.
raceOthers ==
  <<vars, adapterVars, timeoutVars, cloneVars, builderVars, metaVars, parserVars>>
RaceOthersIdle ==
  /\ createChain /\ AdapterIdle /\ TimeoutIdle
  /\ CloneIdle /\ BuilderIdle /\ MetaIdle /\ ParserIdle

\* What the steps on cloned chains leave alone.
cloneOthers == <<core, builderVars, metaVars, parserVars, raceVars>>
CloneOthersIdle == CoreIdle /\ BuilderIdle /\ MetaIdle /\ ParserIdle /\ RaceIdle

\* What the steps on a response builder leave alone.
builderOthers == <<core, cloneVars, metaVars, parserVars, raceVars>>
BuilderOthersIdle == CoreIdle /\ CloneIdle /\ MetaIdle /\ ParserIdle /\ RaceIdle

\* What createContext on its own leaves alone.
metaOthers == <<core, cloneVars, builderVars, parserVars, raceVars>>
MetaOthersIdle == CoreIdle /\ CloneIdle /\ BuilderIdle /\ ParserIdle /\ RaceIdle

\* What bodyParser on its own leaves alone.
parserOthers == <<core, cloneVars, builderVars, metaVars, raceVars>>
ParserOthersIdle == CoreIdle /\ CloneIdle /\ BuilderIdle /\ MetaIdle /\ RaceIdle

\* The chain on its own: no adapter in front of it, no timers, no store.
Init == createChain /\ AdapterIdle /\ TimeoutIdle /\ MoreIdle /\ StoreIdle

\* The steps of call r once handle() has been called.
Step(r) ==
  \/ InitStep(r)
  \/ InitDone(r)
  \/ RunHandler(r)
  \/ ResumeHandler(r)
  \/ Settle(r)
  \/ Release(r)

\* Calls made one after another: `await chain.handle(req1); await
\* chain.handle(req2)`.
Next ==
  \/ \E mw \in UseInputs : Use(mw, MaxHandlers)
  \/ Handle(1, MaxCalls)
  \/ Step(1)

Spec == Init /\ [][Next]_vars

\* The lowest free slot: the slots are interchangeable.
FreeSlot(r) == pc[r] = "idle" /\ \A q \in Slots : q < r => pc[q] # "idle"

\* What use() is called with where calls overlap: the handlers that write
\* to the Context, and the one with an onInit hook.
ConcInputs == {mw \in UseInputs : mw.kind \in {"wrap", "setter"}}

\* Calls that may overlap: a second handle() is called while the first is
\* suspended at an await.
NextConc ==
  \/ \E mw \in ConcInputs : Use(mw, MaxConcHandlers)
  \/ \E r \in Slots : FreeSlot(r) /\ Handle(r, MaxConcCalls)
  \/ \E r \in Slots : Step(r)

SpecConc == Init /\ [][NextConc]_vars

\* The most handlers and calls where the built-in middlewares are used.
MaxMwHandlers == 3
MaxMwCalls == 2

\* What use() is called with in the tests and examples of logger and
\* errorHandler: the middleware itself, and handlers that answer, throw or
\* short-circuit after it.
MwInputs ==
  [isFunction : {TRUE}, name : {"fn"}, onInit : {FALSE},
   kind : {"logger", "errorHandler", "errorHandlerRethrow", "throw",
           "throwMiddlewareError", "stop", "setter"}]

NextMw ==
  \/ \E mw \in MwInputs : Use(mw, MaxMwHandlers)
  \/ Handle(1, MaxMwCalls)
  \/ Step(1)

SpecMw == Init /\ [][NextMw]_vars

\* ------------------------------------------------------------ properties
Done(r) == pc[r] \in {"resolved", "rejected"}

\* The handler list has not changed since call r was made.
SameChain(r) == Len(middlewares) = lenAtCall[r]

AllOfKind(kind) == \A k \in 1..Len(middlewares) : middlewares[k].kind = kind

IsEnterOrAfter(e) == e[1] \in {"enter", "after"}

\* The position of event e in the events of call r (0: none).
At(r, e) ==
  IF \E p \in 1..Len(order[r]) : order[r][p] = e
  THEN CHOOSE p \in 1..Len(order[r]) : order[r][p] = e
  ELSE 0

\* What the test's `order` array holds after a run of n wrapping handlers:
\* the entries 1..n, then the resumptions n..1.
Onion(n) ==
  [i \in 1..(2 * n) |->
     IF i <= n THEN <<"enter", i>> ELSE <<"after", 2 * n + 1 - i>>]

\* C1: in a handle() call on a chain whose handlers all await next() once
\* and return {done: false}, the code before next() runs in the order
\* h1..hn, the code after next() in the order hn..h1, and a handler's
\* after-code runs only once every handler after it has settled.
C1_OnionOrder ==
  \A r \in Slots :
    (SameChain(r) /\ AllOfKind("wrap")) =>
      /\ Done(r) =>
           /\ pc[r] = "resolved"
           /\ SelectSeq(order[r], IsEnterOrAfter) = Onion(Len(middlewares))
      /\ \A k \in 1..Len(middlewares) :
           At(r, <<"after", k>>) # 0 =>
             \A j \in (k + 1)..Len(middlewares) :
               /\ At(r, <<"exit", j>>) # 0
               /\ At(r, <<"exit", j>>) < At(r, <<"after", k>>)

C1_Witness ==
  /\ pc[1] = "resolved"
  /\ SameChain(1)
  /\ AllOfKind("wrap")
  /\ Len(middlewares) = 3
  /\ SelectSeq(order[1], IsEnterOrAfter) = Onion(3)

\* Handler k of call r has run its code from its entry on.
Entered(r, k) == At(r, <<"enter", k>>) # 0

\* Handler k of call r has returned {done: true, response: resp}.
Stopped(r, k, resp) == At(r, <<"done", k, resp>>) # 0

\* The reply of the "stop" handler: status 401 and its JSON body.
StopReply == stopStart(createContext(RequestOf(1), {})).settle.response

\* C2: if handler hk returns {done: true, response: r} (without having
\* called next()), handle() resolves with exactly r and none of hk+1..hn is
\* invoked during that run.
C2_StopReturnsReply ==
  \A r \in Slots : \A k \in 1..Len(middlewares) :
    (SameChain(r) /\ middlewares[k].kind = "stop" /\ Stopped(r, k, StopReply)) =>
      /\ \A j \in (k + 1)..Len(middlewares) : ~Entered(r, j)
      /\ Done(r) => (pc[r] = "resolved" /\ result[r].response = StopReply)

\* Some handler before position k is of the given kind.
Upstream(k, kind) == \E j \in 1..(k - 1) : middlewares[j].kind = kind

\* C3: the short-circuit signal is never intercepted by a handler's own
\* catch: when a downstream handler returns {done: true, response: r} and an
\* upstream handler wraps its `await next()` in a try/catch, that catch
\* block is not entered, and handle() returns r.
C3_SignalNotCatchable ==
  \A r \in Slots : \A k \in 1..Len(middlewares) :
    (SameChain(r) /\ middlewares[k].kind = "stop" /\ Stopped(r, k, StopReply)
       /\ Upstream(k, "errorHandler")) =>
      /\ \A j \in 1..(k - 1) : At(r, <<"catch", j>>) = 0
      /\ pc[r] = "resolved" => result[r].response = StopReply

\* Handler j of call r is an errorHandler that has answered with its error
\* reply.
ErrorReplied(r, j) ==
  /\ middlewares[j].kind = "errorHandler"
  /\ \E p \in 1..Len(order[r]) : order[r][p][1] = "done" /\ order[r][p][2] = j

\* C4: short-circuit is not an error path: with errorHandler registered
\* before a handler that short-circuits with reply r, handle() returns r
\* unchanged, and errorHandler answers with an error reply only when a
\* handler after it has thrown an error.
C4_ShortCircuitIsNotAnError ==
  \A r \in Slots :
    SameChain(r) =>
      /\ \A j \in 1..Len(middlewares) :
           ErrorReplied(r, j) =>
             \E m \in (j + 1)..Len(middlewares) :
               middlewares[m].kind = "throw" /\ Entered(r, m)
      /\ \A k \in 1..Len(middlewares) :
           (Done(r) /\ middlewares[k].kind = "stop" /\ Entered(r, k)
              /\ Upstream(k, "errorHandler")) =>
             (pc[r] = "resolved" /\ result[r].response = StopReply)

\* The number of times the onInit hook of handler k has run.
InitCount(k) == Cardinality({p \in 1..Len(initLog) : initLog[p] = k})

\* The hooks ran in registration order.
InitInOrder ==
  \A p, q \in 1..Len(initLog) : p < q => initLog[p] < initLog[q]

\* C5: with handle() calls made one after another, the onInit hook of every
\* registered handler runs exactly once, in registration order, during the
\* first call and before any handler of that call is invoked.
C5_InitOnce ==
  /\ [](/\ \A k \in 1..Len(middlewares) : InitCount(k) <= 1
        /\ InitInOrder
        /\ ~initialized => \A r \in Slots : order[r] = <<>>)
  /\ [][/\ initLog' # initLog => (calls = 1 /\ ~initialized)
        /\ (~initialized /\ initialized') =>
             \A k \in 1..Len(middlewares) :
               middlewares[k].onInit => InitCount(k)' = 1]_vars

C5_Witness ==
  /\ calls = 3
  /\ pc[1] = "resolved"
  /\ Len(middlewares) = 3
  /\ initLog = <<1, 3>>

\* C6: the flag is read and set without exclusivity.  It stays unset while
\* every call made so far is still running the hooks; a call that finds it
\* unset runs the hooks whatever the other calls are doing, each hook anew;
\* so two calls that overlap there both run the hooks (C6_Witness).
C6_InitRace ==
  /\ []((calls = Cardinality({r \in Slots : pc[r] = "init"})) => ~initialized)
  /\ [][\A r \in Slots :
          /\ (pc[r] = "idle" /\ pc'[r] # "idle" /\ ~initialized) =>
               pc'[r] = "init"
          /\ (pc[r] = "init" /\ initPos'[r] # initPos[r]
                /\ middlewares[initPos[r]].onInit) =>
               initLog' = Append(initLog, initPos[r])]_vars

C6_Witness ==
  /\ calls = 2
  /\ \A r \in Slots : pc[r] = "init"
  /\ \E k \in 1..Len(middlewares) : InitCount(k) = 2

\* The innermost errorHandler before position k (0: none).
Catcher(k) ==
  IF Upstream(k, "errorHandler")
  THEN CHOOSE j \in 1..(k - 1) :
         /\ middlewares[j].kind = "errorHandler"
         /\ \A i \in (j + 1)..(k - 1) : middlewares[i].kind # "errorHandler"
  ELSE 0

\* C7: an error thrown by handler hk propagates out through the pending
\* next() of every handler before it: none of them resumes normally, the
\* innermost one that catches gets it, and if none catches, handle()
\* rejects with that same error and never resolves.
C7_ErrorPropagates ==
  \A r \in Slots : \A k \in 1..Len(middlewares) :
    (SameChain(r) /\ middlewares[k].kind = "throw" /\ Entered(r, k)) =>
      /\ \A j \in 1..(k - 1) : At(r, <<"after", j>>) = 0
      /\ Done(r) =>
           IF Catcher(k) = 0
           THEN /\ pc[r] = "rejected"
                /\ result[r] = Rejected(ErrorOf("Error", 0, NoResponse, k))
           ELSE /\ At(r, <<"catchError", Catcher(k)>>) # 0
                /\ \A j \in (Catcher(k) + 1)..(k - 1) :
                     At(r, <<"exit", j>>) < At(r, <<"catchError", Catcher(k)>>)

C7_Witness ==
  /\ pc[1] = "rejected"
  /\ SameChain(1)
  /\ Len(middlewares) = 3
  /\ middlewares[3].kind = "throw"
  /\ result[1].error.origin = 3

\* The Context as handler code leaves it when it runs event e on ctx.
Apply(e, ctx) ==
  CASE e[1] = "enter" -> Start(middlewares[e[2]].kind, ctx, e[2]).ctx
    [] e[1] = "after" ->
         Resume(middlewares[e[2]].kind, ctx, Fulfilled(FALSE, NoResponse)).ctx
    [] e[1] \in {"catch", "catchError"} ->
         errorHandlerCatch(ctx, ErrorOf("Error", 0, NoResponse, 0)).ctx
    [] OTHER -> ctx

\* The Context that results from running the events on ctx, one after
\* another and with nothing else in between.
RECURSIVE Replay(_, _)
Replay(events, ctx) ==
  IF events = <<>> THEN ctx
  ELSE Replay(Tail(events), Apply(Head(events), ctx))

\* The Context that createContext made for call r.
FreshCtx(r) == createContext(args[r].request, args[r].initialState)

\* What the response builder of call r held when handler k returned.
HeldAt(r, k) ==
  build(Replay(SubSeq(order[r], 1, At(r, <<"exit", k>>)), FreshCtx(r)).response)

NoShortCircuit(r) == \A p \in 1..Len(order[r]) : order[r][p][1] # "done"

\* The reply of the end-to-end scenario: status 201, the JSON body, and the
\* header set by A after B has returned.
ScenarioReply ==
  [status |-> 201,
   headers |-> {<<"content-type", "application/json; charset=utf-8">>,
                <<"x-post", "1">>},
   body |-> "{ok:true}"]

\* C8: when no handler short-circuits, the reply is a snapshot of the
\* response builder taken after the first handler has returned, so it holds
\* what upstream handlers write after their next(): A = wrap, B = setter
\* yields status 201, the JSON body and X-Post: 1.
C8_ReplyIsFinalSnapshot ==
  \A r \in Slots :
    /\ (pc[r] = "resolved" /\ NoShortCircuit(r)) =>
         result[r].response = build(Ctx(r).response)
    /\ (Done(r) /\ SameChain(r) /\ Len(middlewares) = 2
          /\ middlewares[1].kind = "wrap" /\ middlewares[2].kind = "setter") =>
         (pc[r] = "resolved" /\ result[r].response = ScenarioReply)

C8_Witness ==
  /\ pc[1] = "resolved"
  /\ SameChain(1)
  /\ Len(middlewares) = 2
  /\ middlewares[1].kind = "wrap"
  /\ middlewares[2].kind = "setter"
  /\ result[1].response = ScenarioReply

\* Handler k of call r has returned {done: false} without calling next().
ReturnedWithoutNext(r, k) ==
  /\ middlewares[k].kind \in {"noop", "setter"}
  /\ At(r, <<"exit", k>>) # 0

\* C9 as stated: a handler that returns {done: false} without calling
\* next() ends the traversal, and the reply equals what the response builder
\* held at the moment that handler returned.
C9_ReplyAsHeldAtReturn ==
  \A r \in Slots : \A k \in 1..Len(middlewares) :
    (SameChain(r) /\ ReturnedWithoutNext(r, k)) =>
      /\ \A j \in (k + 1)..Len(middlewares) : ~Entered(r, j)
      /\ Done(r) => (pc[r] = "resolved" /\ result[r].response = HeldAt(r, k))

\* C9 as amended: such a handler ends the traversal, and the reply is the
\* response builder as it is once the first handler has returned: what it
\* held when that handler returned, with the header that the wrapping
\* handlers before it set after their next(); status 200 and no body if
\* nothing was set.
C9_ReplyAfterUpstream ==
  \A r \in Slots : \A k \in 1..Len(middlewares) :
    (SameChain(r) /\ ReturnedWithoutNext(r, k)) =>
      /\ \A j \in (k + 1)..Len(middlewares) : ~Entered(r, j)
      /\ Done(r) =>
           /\ pc[r] = "resolved"
           /\ result[r].response =
                IF Upstream(k, "wrap")
                THEN setHeader(HeldAt(r, k), "x-post", "1")
                ELSE HeldAt(r, k)
           /\ (middlewares[k].kind = "noop" /\ ~Upstream(k, "wrap")) =>
                result[r].response = build(createResponseBuilder)

C9_Witness ==
  /\ pc[1] = "resolved"
  /\ SameChain(1)
  /\ Len(middlewares) = 3
  /\ middlewares[1].kind = "wrap"
  /\ middlewares[2].kind = "noop"
  /\ ~Entered(1, 3)
  /\ result[1].response = setHeader(build(createResponseBuilder), "x-post", "1")

\* C10: every call has its own Context: what a call finds in its Context,
\* and what it replies, is what its own handlers wrote, whatever the other
\* call has done meanwhile.
C10_OwnContext ==
  \A r \in Slots :
    ctxOf[r] # 0 =>
      /\ \A q \in Slots \ {r} : ctxOf[q] # ctxOf[r]
      /\ Ctx(r) = Replay(order[r], FreshCtx(r))
      /\ \A p \in Ctx(r).state :
           \/ p = <<"user", args[r].request.url>>
           \/ p \in args[r].initialState
      /\ pc[r] = "resolved" =>
           result[r].response = build(Replay(order[r], FreshCtx(r)).response)

\* Two calls overlap, the first has set its status, the second has not, and
\* each finds its own user in its state.
C10_Witness ==
  /\ pc[1] = "exec"
  /\ pc[2] = "exec"
  /\ Ctx(1).response.status = 201
  /\ Ctx(2).response.status = 200
  /\ Ctx(1).state = {<<"user", 1>>}
  /\ Ctx(2).state = {<<"user", 2>>, <<"count", 5>>}

\* ================================================================ adapters
\* redirect(url, status = 302): status, Location header, body cleared.
redirect(b, url, redirectStatus) ==
  [setHeader(b, "location", url) EXCEPT !.status = redirectStatus,
                                         !.body = "null"]

\* response.headers.has(name)
has(response, name) == \E h \in response.headers : h[1] = name

\* The sole handler of the chain an adapter wraps: the engine's "noop",
\* "stop" and "throw", and four that only write to the response builder and
\* return {done: false}.
AdapterKinds ==
  {"noop", "jsonBody", "location", "redirect", "noContent", "stop", "throw"}

\* ctx.response.json({ok: true}); return {done: false}
jsonBodyStart(ctx) ==
  [ctx |-> [ctx EXCEPT !.response = json(@, "{ok:true}")],
   callsNext |-> FALSE, settle |-> Fulfilled(FALSE, NoResponse)]

\* ctx.response.setHeader('Location', '/next'); return {done: false}
locationStart(ctx) ==
  [ctx |-> [ctx EXCEPT !.response = setHeader(@, "location", "/next")],
   callsNext |-> FALSE, settle |-> Fulfilled(FALSE, NoResponse)]

\* ctx.response.redirect('/login'); return {done: false}
redirectStart(ctx) ==
  [ctx |-> [ctx EXCEPT !.response = redirect(@, "/login", 302)],
   callsNext |-> FALSE, settle |-> Fulfilled(FALSE, NoResponse)]

\* ctx.response.setStatus(204); return {done: false}
noContentStart(ctx) ==
  [ctx |-> [ctx EXCEPT !.response = setStatus(@, 204)],
   callsNext |-> FALSE, settle |-> Fulfilled(FALSE, NoResponse)]

\* The handlers an adapter's chain is built from, up to their return.
AdapterStart(kind, ctx) ==
  CASE kind = "jsonBody"  -> jsonBodyStart(ctx)
    [] kind = "location"  -> locationStart(ctx)
    [] kind = "redirect"  -> redirectStart(ctx)
    [] kind = "noContent" -> noContentStart(ctx)
    [] OTHER              -> Start(kind, ctx, 1)

\* chain.handle(request) on a chain of one handler that never awaits: the
\* Context is created, next() invokes the handler, next() turns its result
\* into a return or a throw, and handle() settles.
handleSole(kind, request) ==
  LET h == AdapterStart(kind, createContext(request, {}))
  IN  handleSettle(h.ctx, nextSettle(h.settle))

\* ------------------------------------------------------- native requests
\* JSON.parse and JSON.stringify on the bodies used: the text on the wire
\* may carry white space, the serialisation never does.
JSONparse(text) ==
  CASE text \in {"{ a: 1 }", "{a:1}"} -> "object a"
    [] text = "{}"                    -> "object empty"
    [] OTHER                          -> "SyntaxError"

JSONstringify(value) ==
  CASE value = "object a"     -> "{a:1}"
    [] value = "object empty" -> "{}"
    [] OTHER                  -> value

\* Object.keys(body).length
KeyCount(body) ==
  CASE body.type = "object" -> IF body.value = "object empty" THEN 0 ELSE 1
    [] body.type = "string" -> Len(body.value)
    [] OTHER                -> 0

\* How the body of a request reaches the adapter: the bytes on the wire, and
\* what the host framework exposes as `body` (undefined when no body parser
\* has run and the body is still the unread stream).
BodyForms ==
  { [ctype |-> "", wire |-> "",
     body |-> [type |-> "undefined", value |-> ""]],
    [ctype |-> "", wire |-> "",
     body |-> [type |-> "object", value |-> "object empty"]],
    [ctype |-> "application/json", wire |-> "{ a: 1 }",
     body |-> [type |-> "undefined", value |-> ""]],
    [ctype |-> "application/json", wire |-> "{ a: 1 }",
     body |-> [type |-> "object", value |-> "object a"]],
    [ctype |-> "text/plain", wire |-> "hello",
     body |-> [type |-> "string", value |-> "hello"]] }

\* The header sets of the native requests: single values, and one header
\* that the host delivers as an array of values.
HeaderForms ==
  { {<<"accept", <<"text/html">>>>},
    {<<"accept", <<"text/html">>>>, <<"x-tag", <<"a", "b">>>>} }

\* The native requests: the URL as protocol, host and path with query.
NativeRequests ==
  { [method |-> m, href |-> <<"http", "example.com", "/items?x=1">>,
     headers |-> h \cup (IF f.ctype = "" THEN {}
                         ELSE {<<"content-type", <<f.ctype>>>>}),
     wire |-> f.wire, body |-> f.body] :
      m \in {"GET", "POST"}, h \in HeaderForms, f \in BodyForms }

\* req.get('Content-Type') || ''
ContentTypeOf(req) ==
  IF \E h \in req.headers : h[1] = "content-type"
  THEN (CHOOSE h \in req.headers : h[1] = "content-type")[2][1]
  ELSE ""

\* The loop over Object.entries(headers): an array is appended value by
\* value, a string is set.
convertHeaders(headers) ==
  {<<h[1], [i \in 1..Len(h[2]) |-> h[2][i]]>> : h \in headers}

Bodyless == {"GET", "HEAD", "OPTIONS"}

\* The body chosen from an already-parsed `body` by its Content-Type.
\* (URL-encoded bodies are not among the requests modelled.)
bodyFromParsed(req) ==
  IF ContentTypeOf(req) = "application/json"
  THEN JSONstringify(req.body.value)
  ELSE IF req.body.type = "string" THEN req.body.value
  ELSE ""

\* expressToFetchRequest(req)
expressToFetchRequest(req) ==
  [method |-> req.method,
   url |-> <<req.href[1], req.href[2], req.href[3]>>,
   headers |-> convertHeaders(req.headers),
   body |-> IF req.method \notin Bodyless
               /\ req.body.type # "undefined" /\ KeyCount(req.body) > 0
            THEN bodyFromParsed(req)
            ELSE ""]

\* koaToFetchRequest(ctx): the URL is ctx.href.
koaToFetchRequest(req) ==
  [method |-> req.method,
   url |-> req.href,
   headers |-> convertHeaders(req.headers),
   body |-> IF req.method \notin Bodyless /\ req.body.type # "undefined"
            THEN bodyFromParsed(req)
            ELSE ""]

\* fastifyToFetchRequest(request)
fastifyToFetchRequest(req) ==
  [method |-> req.method,
   url |-> <<req.href[1], req.href[2], req.href[3]>>,
   headers |-> convertHeaders(req.headers),
   body |-> IF req.method \notin Bodyless /\ req.body.type # "undefined"
            THEN bodyFromParsed(req)
            ELSE ""]

\* c.req.raw of Hono, and the Request a Fetch-based runtime hands over: the
\* request itself, its body stream unread.
rawRequest(req) ==
  [method |-> req.method, url |-> req.href, headers |-> req.headers,
   body |-> req.wire]

\* ------------------------------------------------------ adapter handlers
\* hasContent of toKoa, toHono and the toFastify hook.
hasContent(response) ==
  \/ has(response, "content-type")
  \/ response.status # 200
  \/ has(response, "location")

\* hasContent of fastifyPreHandler.
hasContentPreHandler(response) ==
  has(response, "content-type") \/ response.status # 200

\* What the host sees when the adapter converts the reply: status, headers
\* and body are written to the native response.
Written(response) == [NoHost EXCEPT !.wrote = TRUE, !.reply = response]

\* What the host sees when its continuation is invoked instead.
Continued == [NoHost EXCEPT !.continued = TRUE]

\* What the host sees when the failure e is handed to it: next(e) of
\* Express, a rejected handler promise elsewhere.
Failed(e) == [NoHost EXCEPT !.failure = e]

\* `const { passThrough = dflt } = options`
passThroughOf(option, dflt) ==
  IF option = "default" THEN dflt ELSE option = "true"

\* toExpress, from the settled `await chain.handle(...)` on.
toExpressSettled(passThrough, s) ==
  IF s.t = "throw" THEN Failed(s.error)
  ELSE IF /\ passThrough
          /\ s.response.status = 200
          /\ ~has(s.response, "content-type")
       THEN Continued
       ELSE Written(s.response)

\* toKoa, from the settled await on: without hasContent and without
\* passThrough nothing is done.
toKoaSettled(passThrough, s) ==
  IF s.t = "throw" THEN Failed(s.error)
  ELSE IF hasContent(s.response) THEN Written(s.response)
  ELSE IF passThrough THEN Continued
  ELSE NoHost

\* toHono, from the settled await on: the response is returned, or next()
\* is awaited.
toHonoSettled(passThrough, s) ==
  IF s.t = "throw" THEN Failed(s.error)
  ELSE IF hasContent(s.response) THEN Written(s.response)
  ELSE IF passThrough THEN Continued
  ELSE NoHost

\* The hook of toFastify, from the settled await on: the reply is sent, or
\* the hook returns and Fastify goes on to the next hook and the route.
toFastifySettled(s) ==
  IF s.t = "throw" THEN Failed(s.error)
  ELSE IF hasContent(s.response) THEN Written(s.response)
  ELSE Continued

\* fastifyPreHandler, from the settled await on.
fastifyPreHandlerSettled(s) ==
  IF s.t = "throw" THEN Failed(s.error)
  ELSE IF hasContentPreHandler(s.response) THEN Written(s.response)
  ELSE Continued

\* createAdapter with toResponse called whatever chain.handle settled with.
createAdapterAlwaysResponds(s) == Written(s.response)

\* The handle function of createAdapter, from the settled await on:
\* options.toResponse(response, res).
createAdapterSettled(s) ==
  IF s.t = "throw" THEN Failed(s.error) ELSE Written(s.response)

\* toFetchHandler and honoHandler return the promise of chain.handle.
toFetchHandlerSettled(s) ==
  IF s.t = "throw" THEN Failed(s.error) ELSE Written(s.response)

PassThroughOptions == {"default", "true", "false"}

\* The Request that adapter a hands to chain.handle for the native request.
toRequest(a, req) ==
  CASE a = "express" -> expressToFetchRequest(req)
    [] a = "koa" -> koaToFetchRequest(req)
    [] a \in {"fastify", "fastifyPreHandler"} -> fastifyToFetchRequest(req)
    [] OTHER -> rawRequest(req)

\* The host framework invokes the native handler of adapter a: the request
\* is converted and chain.handle is awaited.
Invoke(a, options) ==
  /\ apc = "idle"
  /\ \E req \in NativeRequests, kind \in AdapterKinds, o \in options :
       /\ acall' = [adapter |-> a, passThrough |-> o, kind |-> kind,
                    req |-> req]
       /\ fetchRequest' = toRequest(a, req)
  /\ apc' = "awaiting"
  /\ host' = NoHost
  /\ UNCHANGED <<vars, more, timeoutVars, storeVars>>

\* chain.handle has settled for adapter a and the native handler runs to
\* its end, leaving h with the host.
Complete(a, h) ==
  /\ apc = "awaiting"
  /\ acall.adapter = a
  /\ host' = h
  /\ apc' = "done"
  /\ UNCHANGED <<vars, more, timeoutVars, storeVars, acall, fetchRequest>>

\* What `await chain.handle(fetchRequest)` settles with.
Outcome == handleSole(acall.kind, fetchRequest)

toExpress ==
  \/ Invoke("express", PassThroughOptions)
  \/ Complete("express",
              toExpressSettled(passThroughOf(acall.passThrough, FALSE), Outcome))

toKoa ==
  \/ Invoke("koa", PassThroughOptions)
  \/ Complete("koa",
              toKoaSettled(passThroughOf(acall.passThrough, FALSE), Outcome))

toHono ==
  \/ Invoke("hono", PassThroughOptions)
  \/ Complete("hono",
              toHonoSettled(passThroughOf(acall.passThrough, TRUE), Outcome))

toFastify ==
  \/ Invoke("fastify", {"default"})
  \/ Complete("fastify", toFastifySettled(Outcome))

fastifyPreHandler ==
  \/ Invoke("fastifyPreHandler", {"default"})
  \/ Complete("fastifyPreHandler", fastifyPreHandlerSettled(Outcome))

\* createAdapter with toRequest building the Request from the native one.
createAdapter ==
  \/ Invoke("createAdapter", {"default"})
  \/ Complete("createAdapter", createAdapterSettled(Outcome))

toFetchHandler ==
  \/ Invoke("toFetchHandler", {"default"})
  \/ Complete("toFetchHandler", toFetchHandlerSettled(Outcome))

\* The host has finished with the request; the next one may arrive.
HostDone ==
  /\ apc = "done"
  /\ acall' = NoCall
  /\ apc' = "idle"
  /\ fetchRequest' = NoFetchRequest
  /\ host' = NoHost
  /\ UNCHANGED <<vars, more, timeoutVars, storeVars>>

InitAdapter == createChain /\ AdapterIdle /\ TimeoutIdle /\ MoreIdle /\ StoreIdle

NextAdapter ==
  \/ toExpress
  \/ toKoa
  \/ toHono
  \/ toFastify
  \/ fastifyPreHandler
  \/ createAdapter
  \/ toFetchHandler
  \/ HostDone

SpecAdapter == InitAdapter /\ [][NextAdapter]_<<vars, adapterVars>>

\* ------------------------------------------------- properties of adapters
\* The adapters that can hand a request on to the host framework.
PassThroughCapable ==
  {"express", "koa", "hono", "fastify", "fastifyPreHandler"}

\* The reply counts as real output: its status is not 200, or it carries a
\* Content-Type header, or it carries a Location header.
RealOutput(response) ==
  \/ response.status # 200
  \/ \E h \in response.headers : h[1] \in {"content-type", "location"}

\* C11: when a pass-through-capable adapter has finished with a reply of
\* the chain, it has written the reply if and only if the reply is real
\* output (status not 200, or Content-Type present, or Location present),
\* and it has invoked the host's continuation if and only if it is not.
C11_RealOutputIffHeuristic ==
  (apc = "done" /\ acall.adapter \in PassThroughCapable /\ Outcome.t = "ok") =>
    /\ host.wrote <=> RealOutput(Outcome.response)
    /\ host.continued <=> ~RealOutput(Outcome.response)

\* C12: with default options, when the chain's sole handler returns
\* {done: false} and sets nothing, the Express, Koa, Hono and Fastify
\* adapters invoke the host's continuation and write no reply.
C12_NoopReachesHost ==
  (/\ apc = "done"
   /\ acall.adapter \in {"express", "koa", "hono", "fastify"}
   /\ acall.passThrough = "default"
   /\ acall.kind = "noop") =>
    host.continued /\ ~host.wrote

\* C13: when chain.handle() has rejected with an error, every adapter has
\* handed exactly that error to its caller (next(error) of Express, a
\* rejected promise elsewhere), has written no reply (createAdapter has not
\* called toResponse) and has not invoked the host's continuation.
C13_FailureVisible ==
  (apc = "done" /\ Outcome.t = "throw") =>
    /\ host.failure = Outcome.error
    /\ host.failure.class = "Error"
    /\ ~host.wrote
    /\ ~host.continued

\* A createAdapter handler has finished after its chain threw.
C13_Witness ==
  /\ apc = "done"
  /\ acall.adapter = "createAdapter"
  /\ acall.kind = "throw"
  /\ host.failure.origin = 1

\* The adapters that convert a native request.
RequestAdapters ==
  {"express", "koa", "hono", "fastify", "fastifyPreHandler"}

\* The body handed to the chain is the body of the request: the same bytes,
\* or for JSON the same value.
SameBody(body, req) ==
  \/ body = req.wire
  \/ /\ ContentTypeOf(req) = "application/json"
     /\ JSONparse(body) # "SyntaxError"
     /\ JSONparse(body) = JSONparse(req.wire)

\* C14: the request an adapter hands to the chain has the native request's
\* method, absolute URL and header values (arrays of values included), and,
\* unless the method is GET, HEAD or OPTIONS, its body, whether the host
\* exposes the body parsed or only as the unread stream.
C14_RequestPreserved ==
  (apc # "idle" /\ acall.adapter \in RequestAdapters) =>
    /\ fetchRequest.method = acall.req.method
    /\ fetchRequest.url = acall.req.href
    /\ fetchRequest.headers = acall.req.headers
    /\ acall.req.method \notin Bodyless =>
         SameBody(fetchRequest.body, acall.req)

\* ================================================================= timeout
\* Longest timeout duration and longest delay of the slow handler, in
\* fake-timer milliseconds.
MaxDuration == 3
MaxDelay == 3

\* The ways the slow handler ends: it writes the JSON body, awaits next()
\* and returns {done: false}; it throws an Error; it throws a TimeoutError
\* of its own; it writes a 401 reply and returns {done: true, response}.
Ends == {"returns", "throws", "throwsTimeoutError", "stops"}

\* The calls: timeout({duration, status, handler}) followed by the tests'
\* slow handler (sleep `delay` ms, or not at all; then one of Ends) and by
\* a last handler that sets a header.
TimedCalls ==
  [duration : 1..MaxDuration, status : {408, 504},
   handler : {"none", "custom"}, delay : 0..MaxDelay, ends : Ends]

\* The slow handler from its wake-up to its `await next()`, which invokes
\* the last handler: ctx.response.json({message: 'OK'}), then the last
\* handler's ctx.response.setHeader('X-Tail', '1').
downstreamWrites(b) == setHeader(json(b, "{message:OK}"), "x-tail", "1")

\* The slow handler that short-circuits:
\* ctx.response.setStatus(401).json({error: 'Unauthorized'}).
stopWrites(b) == json(setStatus(b, 401), "{error:Unauthorized}")

\* The slow handler runs from its entry (delay 0) or from its wake-up to
\* its await of next(), to its throw or to its return; the handlers invoked
\* are logged with whether handle() had already settled.
slowRuns(c, settled) ==
  /\ down' = "resumed"
  /\ tctx' = CASE c.ends = "returns" -> downstreamWrites(tctx)
              [] c.ends = "stops" -> stopWrites(tctx)
              [] OTHER -> tctx
  /\ tlog' = tlog \o (IF c.ends = "returns" THEN <<<<"tail", settled>>>> ELSE <<>>)

\* chain.handle(): the timeout handler arms its timer and calls next() inside
\* Promise.race; the slow handler starts and sleeps, or runs on at once.
TimedHandle ==
  /\ tpc = "idle"
  /\ \E c \in TimedCalls :
       /\ tcall' = c
       /\ IF c.delay = 0
          THEN slowRuns(c, FALSE)
          ELSE down' = "sleeping" /\ UNCHANGED <<tctx, tlog>>
  /\ tpc' = "racing"
  /\ timer' = "armed"
  /\ UNCHANGED <<vars, more, adapterVars, storeVars, elapsed, timedOut, race, tresult>>

\* A promise reaction is queued: a continuation runs before any timer does.
MicrotaskPending == down = "resumed" \/ race.t # "pending"

\* The timeout's timer is due and has not fired.
TimerDue == timer = "armed" /\ elapsed >= tcall.duration

\* The slow handler's timer is due and has not fired; of two timers due
\* together the one set first, timeout's, fires first.
WakeDue == down = "sleeping" /\ elapsed >= tcall.delay /\ ~TimerDue

\* vi.advanceTimersByTime: the clock moves on while a timer is pending and
\* none is due.
Tick ==
  /\ timer = "armed" \/ down = "sleeping"
  /\ ~MicrotaskPending
  /\ ~TimerDue /\ ~WakeDue
  /\ elapsed' = elapsed + 1
  /\ UNCHANGED <<vars, more, adapterVars, storeVars, tcall, tpc, timer, timedOut, race, down,
                 tctx, tresult, tlog>>

\* The callback of timeout's setTimeout: timedOut = true and the timeout
\* promise is rejected, which settles the race if next() has not.
TimerFires ==
  /\ TimerDue
  /\ ~MicrotaskPending
  /\ timer' = "fired"
  /\ timedOut' = TRUE
  /\ race' = Rejected(ErrorOf("TimeoutError", 408, NoResponse, 1))
  /\ UNCHANGED <<vars, more, adapterVars, storeVars, tcall, tpc, elapsed, down, tctx, tresult,
                 tlog>>

\* The slow handler's timer with the wake-up dropped once timeout has fired.
WakeUnlessTimedOut ==
  /\ WakeDue
  /\ ~timedOut
  /\ ~MicrotaskPending
  /\ slowRuns(tcall, tpc = "settled")
  /\ UNCHANGED <<vars, more, adapterVars, storeVars, tcall, tpc, elapsed, timer, timedOut,
                 race, tresult>>

\* The slow handler's wake-up with a reply that is a view of the response
\* builder: what the handler writes shows in the reply already returned.
WakeSharingReply ==
  /\ WakeDue
  /\ ~MicrotaskPending
  /\ slowRuns(tcall, tpc = "settled")
  /\ tresult' = IF tpc = "settled" /\ tresult.t = "ok"
                THEN Fulfilled(FALSE, build(tctx'))
                ELSE tresult
  /\ UNCHANGED <<vars, more, adapterVars, storeVars, tcall, tpc, elapsed, timer, timedOut,
                 race>>

\* The callback of the slow handler's setTimeout: the handler wakes up,
\* whatever has become of the call.
Wake ==
  /\ WakeDue
  /\ ~MicrotaskPending
  /\ slowRuns(tcall, tpc = "settled")
  /\ UNCHANGED <<vars, more, adapterVars, storeVars, tcall, tpc, elapsed, timer, timedOut,
                 race, tresult>>

\* How the slow handler of call c settles, with response builder b.
slowSettle(c, b) ==
  CASE c.ends = "returns" -> Fulfilled(FALSE, NoResponse)
    [] c.ends = "throws" -> Rejected(ErrorOf("Error", 0, NoResponse, 2))
    [] c.ends = "throwsTimeoutError" ->
         Rejected(ErrorOf("TimeoutError", 408, NoResponse, 2))
    [] c.ends = "stops" -> Fulfilled(TRUE, build(b))

\* The slow handler returns or throws: the promise of the next() that
\* timeout called settles (a {done: true} result as a ShortCircuitError),
\* and with it the race unless the timeout promise has settled it.
DownFinish ==
  /\ down = "resumed"
  /\ down' = CASE tcall.ends = "returns" -> "finished"
              [] tcall.ends = "stops" -> "stopped"
              [] OTHER -> "failed"
  /\ race' = IF tpc = "racing" /\ race.t = "pending"
             THEN nextSettle(slowSettle(tcall, tctx))
             ELSE race
  /\ UNCHANGED <<vars, more, adapterVars, storeVars, tcall, tpc, elapsed, timer, timedOut,
                 tctx, tresult, tlog>>

\* timeout answering 408 whatever status it was configured with.
timeoutSettledFixedStatus(c, b, s, flag) ==
  IF s.t = "ok" THEN [ctx |-> b, settle |-> Fulfilled(FALSE, NoResponse)]
  ELSE IF s.error.class = "TimeoutError" /\ flag
  THEN LET r == json(setStatus(b, 408), "{error:Request timeout,code:TIMEOUT_ERROR}")
       IN  [ctx |-> r, settle |-> Fulfilled(TRUE, build(r))]
  ELSE [ctx |-> b, settle |-> Rejected(s.error)]

\* timeout answering every TimeoutError, its own timer's or not.
timeoutSettledAnyTimeoutError(c, b, s, flag) ==
  IF s.t = "ok" THEN [ctx |-> b, settle |-> Fulfilled(FALSE, NoResponse)]
  ELSE IF s.error.class = "TimeoutError"
  THEN LET r == IF c.handler = "custom"
                THEN json(setStatus(b, 503), "{custom:response}")
                ELSE json(setStatus(b, c.status),
                          "{error:Request timeout,code:TIMEOUT_ERROR}")
       IN  [ctx |-> r, settle |-> Fulfilled(TRUE, build(r))]
  ELSE [ctx |-> b, settle |-> Rejected(s.error)]

\* The timeout handler from the settled `await Promise.race(...)` on, with
\* options c, response builder b and the `timedOut` flag: the catch block
\* answers a TimeoutError of its own timer, with the custom handler or with
\* status and TIMEOUT_ERROR body, and re-throws anything else.
timeoutSettled(c, b, s, flag) ==
  IF s.t = "ok" THEN [ctx |-> b, settle |-> Fulfilled(FALSE, NoResponse)]
  ELSE IF s.error.class = "TimeoutError" /\ flag
  THEN LET r == IF c.handler = "custom"
                THEN json(setStatus(b, 503), "{custom:response}")
                ELSE json(setStatus(b, c.status),
                          "{error:Request timeout,code:TIMEOUT_ERROR}")
       IN  [ctx |-> r, settle |-> Fulfilled(TRUE, build(r))]
  ELSE [ctx |-> b, settle |-> Rejected(s.error)]

\* timeout clearing its timer only when next() has returned.
clearTimeoutOnReturn(t, s) == IF t = "armed" /\ s.t = "ok" THEN "cleared" ELSE t

\* finally { if (timeoutId !== null) clearTimeout(timeoutId) }: the timer t
\* after the handler has left its try block with the race settled as s; a
\* timer that has fired stays fired.
clearTimeout(t, s) == IF t = "armed" THEN "cleared" ELSE t

\* The race has settled: the timeout handler resumes, its finally block
\* clears the timer, next() and handle() pass its result on to the caller.
TimeoutResume ==
  /\ tpc = "racing"
  /\ race.t # "pending"
  /\ LET h == timeoutSettled(tcall, tctx, race, timedOut)
     IN  /\ tctx' = h.ctx
         /\ tresult' = handleSettle([response |-> h.ctx], nextSettle(h.settle))
  /\ timer' = clearTimeout(timer, race)
  /\ race' = Pending
  /\ tpc' = "settled"
  /\ UNCHANGED <<vars, more, adapterVars, storeVars, tcall, elapsed, timedOut, down, tlog>>

\* The caller has its reply and the slow handler has run to its end: the
\* next call may be made.
TimedDone ==
  /\ tpc = "settled"
  /\ down \in {"finished", "failed", "stopped"}
  /\ tcall' = NoTimedCall
  /\ tpc' = "idle"
  /\ elapsed' = 0
  /\ timer' = "none"
  /\ timedOut' = FALSE
  /\ race' = Pending
  /\ down' = "none"
  /\ tctx' = createResponseBuilder
  /\ tresult' = Pending
  /\ tlog' = <<>>
  /\ UNCHANGED <<vars, more, adapterVars, storeVars>>

InitTimeout == createChain /\ AdapterIdle /\ TimeoutIdle /\ MoreIdle /\ StoreIdle

NextTimeout ==
  \/ TimedHandle
  \/ Tick
  \/ TimerFires
  \/ Wake
  \/ DownFinish
  \/ TimeoutResume
  \/ TimedDone

SpecTimeout == InitTimeout /\ [][NextTimeout]_timeoutVars

\* The event loop runs every due timer and every queued continuation, and
\* the tests advance the clock as long as a timer is pending.
SpecTimeoutFair ==
  SpecTimeout /\ WF_timeoutVars(Tick) /\ WF_timeoutVars(TimerFires)
    /\ WF_timeoutVars(Wake) /\ WF_timeoutVars(DownFinish)
    /\ WF_timeoutVars(TimeoutResume)

\* ------------------------------------------------- properties of timeout
\* What the chain replies when the slow handler and the last handler have
\* run and nothing else has written to the response.
DownstreamReply == build(downstreamWrites(createResponseBuilder))

\* The timer fired before the slow handler woke up.
TimedOutFirst == tcall.delay >= tcall.duration

C16_DownstreamNotCancelled ==
  /\ [](timedOut /\ tpc = "settled" =>
          tresult.t = "ok"
          /\ tresult.response.status \in {tcall.status, 503}
          /\ tresult.response # DownstreamReply)
  /\ [](timedOut /\ down = "finished" => tlog = <<<<"tail", TRUE>>>>)
  /\ (timedOut /\ down = "sleeping") ~>
       (down \in {"finished", "failed", "stopped"})

\* handle() has returned the 408 reply, and afterwards the slow handler has
\* woken up, invoked the last handler and finished.
C16_Witness ==
  /\ tpc = "settled"
  /\ timedOut
  /\ tresult.response.status = 408
  /\ down = "finished"
  /\ tlog = <<<<"tail", TRUE>>>>
  /\ tctx.body = "{message:OK}"

\* ============================================================ MemoryStore
\* Latest time reached and longest ttl given to set(), in milliseconds.
MaxNow == 4
MaxTtl == 2

\* The values stored by the store's own tests.
StoreValues == {"value1", "value2"}

\* get(key) at time t: {found, value} and the Map it leaves; an entry whose
\* expiresAt lies before t is deleted and not returned.
get(st, key, t) ==
  LET entry == st[key]
  IN  IF ~entry.present
      THEN [found |-> FALSE, value |-> "", store |-> st]
      ELSE IF entry.expires /\ t > entry.expiresAt
      THEN [found |-> FALSE, value |-> "",
            store |-> [st EXCEPT ![key] = NoEntry]]
      ELSE [found |-> TRUE, value |-> entry.value, store |-> st]

\* set() with an entry that is already expired at the time it is stored.
setExpiringAtOnce(st, key, value, ttl, t) ==
  [st EXCEPT ![key] = [present |-> TRUE, value |-> value,
                       expires |-> ttl > 0,
                       expiresAt |-> IF ttl > 0 THEN t + ttl - 1 ELSE 0]]

\* set(key, value, ttl) at time t; ttl 0 stands for a call without ttl, and
\* like it stores expiresAt = null.
set(st, key, value, ttl, t) ==
  [st EXCEPT ![key] = [present |-> TRUE, value |-> value,
                       expires |-> ttl > 0,
                       expiresAt |-> IF ttl > 0 THEN t + ttl ELSE 0]]

\* cleanup() at time t: every entry whose expiresAt lies before t is
\* deleted.
cleanup(st, t) ==
  [k \in DOMAIN st |->
     IF st[k].present /\ st[k].expires /\ t > st[k].expiresAt
     THEN NoEntry ELSE st[k]]

\* await store.set(key, value, ttl)
Set ==
  \E key \in StoreKeys, value \in StoreValues, ttl \in 0..MaxTtl :
    /\ store' = set(store, key, value, ttl, now)
    /\ last' = [op |-> "set", key |-> key, at |-> now, found |-> FALSE,
                value |-> value]
    /\ hist' = [hist EXCEPT ![key] = [set |-> TRUE, at |-> now, ttl |-> ttl,
                                     value |-> value]]
    /\ UNCHANGED <<vars, more, adapterVars, timeoutVars, now, cfg>>

\* await store.get(key), and await store.has(key), which is
\* `(await this.get(key)) !== undefined`.
Get ==
  \E key \in StoreKeys, op \in {"get", "has"} :
    LET g == get(store, key, now)
    IN  /\ store' = g.store
        /\ last' = [op |-> op, key |-> key, at |-> now, found |-> g.found,
                    value |-> IF op = "get" THEN g.value ELSE ""]
        /\ UNCHANGED <<vars, more, adapterVars, timeoutVars, now, cfg, hist>>

\* await store.delete(key), and await store.clear() for every key.
Delete ==
  \E keys \in {{k} : k \in StoreKeys} \cup {StoreKeys} :
    /\ store' = [k \in StoreKeys |-> IF k \in keys THEN NoEntry ELSE store[k]]
    /\ hist' = [k \in StoreKeys |-> IF k \in keys THEN NoHist ELSE hist[k]]
    /\ last' = [op |-> "delete", key |-> CHOOSE k \in keys : TRUE,
                at |-> now, found |-> \E k \in keys : store[k].present,
                value |-> ""]
    /\ UNCHANGED <<vars, more, adapterVars, timeoutVars, now, cfg>>

\* The setInterval callback of the constructor.
Cleanup ==
  /\ \E k \in StoreKeys :
       store[k].present /\ store[k].expires /\ now > store[k].expiresAt
  /\ store' = cleanup(store, now)
  /\ UNCHANGED <<vars, more, adapterVars, timeoutVars, now, cfg, last, hist>>

\* vi.advanceTimersByTime(1)
AdvanceTime ==
  /\ now < MaxNow
  /\ now' = now + 1
  /\ UNCHANGED <<vars, more, adapterVars, timeoutVars, store, cfg, last, hist>>

InitStore == createChain /\ AdapterIdle /\ TimeoutIdle /\ MoreIdle /\ StoreIdle

NextStore ==
  \/ Set
  \/ Get
  \/ Delete
  \/ Cleanup
  \/ AdvanceTime

SpecStore == InitStore /\ [][NextStore]_storeVars

\* ---------------------------------------------- properties of MemoryStore
\* The value recorded for the key of the last operation.
Recorded == hist[last.key]

\* C18 as stated: the last get() or has() found the value of the last set()
\* if fewer than ttl milliseconds had elapsed since that set() or it had no
\* ttl, and found nothing from ttl milliseconds on or without a set().
C18_GoneOnceTtlElapsed ==
  last.op \in {"get", "has"} =>
    /\ last.found <=>
         /\ Recorded.set
         /\ Recorded.ttl = 0 \/ last.at - Recorded.at < Recorded.ttl
    /\ last.op = "get" /\ last.found => last.value = Recorded.value

\* C18, amended: the last get() or has() found the value of the last set()
\* if no more than ttl milliseconds had elapsed since that set() or it had
\* no ttl, and found nothing once more than ttl milliseconds had elapsed or
\* without a set(); has() is true exactly then.
C18_GoneAfterTtl ==
  last.op \in {"get", "has"} =>
    /\ last.found <=>
         /\ Recorded.set
         /\ Recorded.ttl = 0 \/ last.at - Recorded.at <= Recorded.ttl
    /\ last.op = "get" /\ last.found => last.value = Recorded.value

\* A value set with a ttl has been read back exactly ttl milliseconds after
\* it was set, with another key's expired entry cleaned up meanwhile.
C18_Witness ==
  /\ last.op = "get" /\ last.found
  /\ Recorded.ttl > 0
  /\ last.at - Recorded.at = Recorded.ttl
  /\ \E k \in StoreKeys : hist[k].set /\ ~store[k].present

\* ============================================================== rateLimit
\* Largest `max`, longest `window` (milliseconds), and the most requests
\* made for one key within one window.
MaxLimit == 2
MaxWindow == 2
MaxRequests == 4

\* rateLimit that answers 429 from the max-th request on.
rateLimitOffByOne(c, st, key, t) ==
  LET g == get(st, key, t)
      entry == IF ~g.found \/ t > g.value.resetAt
               THEN [count |-> 0, resetAt |-> t + c.window]
               ELSE g.value
      counted == [entry EXCEPT !.count = @ + 1]
  IN  [store |-> set(g.store, key, counted, c.window, t),
       limited |-> counted.count >= c.max]

\* The handler of rateLimit({max, window}) for a request with key `key` at
\* time t: the entry is read, started anew when there is none or its
\* resetAt has passed, counted up and stored with ttl = window; the request
\* is limited when the count exceeds max.
rateLimit(c, st, key, t) ==
  LET g == get(st, key, t)
      entry == IF ~g.found \/ t > g.value.resetAt
               THEN [count |-> 0, resetAt |-> t + c.window]
               ELSE g.value
      counted == [entry EXCEPT !.count = @ + 1]
  IN  [store |-> set(g.store, key, counted, c.window, t),
       limited |-> counted.count > c.max]

\* The window of the requests for one key, as the claim counts it: it opens
\* with the first request, or with the first one after the previous window
\* has elapsed; n is the number of requests made in it.
WindowAfter(h, c, t) ==
  IF ~h.open \/ t > h.start + c.window
  THEN [open |-> TRUE, start |-> t, n |-> 1, restarted |-> h.open,
        blocked |-> h.blocked]
  ELSE [h EXCEPT !.n = @ + 1]

\* chain.handle(request) on the chain [rateLimit, handler] of the tests: a
\* limited request is answered with 429 by rateLimit ({done: true}), any
\* other reaches the handler, which answers 200.
RateLimitRequest ==
  \E key \in StoreKeys :
    LET r == rateLimit(cfg, store, key, now)
        w == WindowAfter(hist[key], cfg, now)
    IN  /\ w.n <= MaxRequests
        /\ store' = r.store
        /\ last' = [op |-> "request", key |-> key, at |-> now,
                    downstream |-> ~r.limited,
                    status |-> IF r.limited THEN 429 ELSE 200]
        /\ hist' = [hist EXCEPT ![key] =
                      [w EXCEPT !.blocked = @ \/ r.limited]]
        /\ UNCHANGED <<vars, more, adapterVars, timeoutVars, now, cfg>>

\* rateLimit({max, window}) with its default MemoryStore, no request made.
InitRate ==
  /\ createChain /\ AdapterIdle /\ TimeoutIdle /\ MoreIdle
  /\ now = 0
  /\ store = [k \in StoreKeys |-> NoEntry]
  /\ cfg \in [max : 1..MaxLimit, window : 1..MaxWindow]
  /\ last = [op |-> "none", key |-> "a", at |-> 0, downstream |-> FALSE,
             status |-> 0]
  /\ hist = [k \in StoreKeys |->
               [open |-> FALSE, start |-> 0, n |-> 0, restarted |-> FALSE,
                blocked |-> FALSE]]

NextRate ==
  \/ RateLimitRequest
  \/ Cleanup
  \/ AdvanceTime

SpecRate == InitRate /\ [][NextRate]_storeVars

MaxStale == 1

\* CacheOptions.statusCodes, its default.
statusCodes == {200, 203, 204, 206, 300, 301, 308}

\* What the handlers after cache do with a request at time t: write the
\* content of that moment and return {done: false} ("ok"), answer 404 the
\* same way ("notFound"), or return {done: true} with the content ("stop").
Downstream(kind, t) ==
  [kind |-> kind, status |-> IF kind = "notFound" THEN 404 ELSE 200,
   body |-> <<"content", t>>]

\* A cached entry counted as stale from the moment it expires.
isStaleAtExpiry(cached, t) == t >= cached.expiresAt

\* A cached entry is stale once the time is past its expiresAt.
isStale(cached, t) == t > cached.expiresAt

\* A stale entry is still served while the stale window lasts.
isWithinStaleWindow(c, cached, t) ==
  c.stale > 0 /\ t <= cached.expiresAt + c.stale

\* The handler of cache({ttl, stale}) for a GET request with cache key `key`
\* at time t, the handlers after it doing d.  A cached entry that is not
\* stale, or is within the stale window, is served with {done: true};
\* revalidateInBackground does nothing.  Otherwise next() is awaited: a
\* {done: true} downstream leaves the handler by the error next() throws,
\* and a reply with a cacheable status is stored with ttl + stale.
cache(c, st, key, t, d) ==
  LET g == get(st, key, t)
  IN  IF g.found /\ (\/ ~isStale(g.value, t)
                     \/ isWithinStaleWindow(c, g.value, t))
      THEN [store |-> g.store, downstream |-> FALSE,
            status |-> g.value.status, body |-> g.value.body,
            xcache |-> IF isStale(g.value, t) THEN "STALE" ELSE "HIT"]
      ELSE IF d.kind # "stop" /\ d.status \in statusCodes
      THEN [store |-> set(g.store, key,
                          [body |-> d.body, status |-> d.status,
                           createdAt |-> t, expiresAt |-> t + c.ttl],
                          c.ttl + c.stale, t),
            downstream |-> TRUE, status |-> d.status, body |-> d.body,
            xcache |-> "MISS"]
      ELSE [store |-> g.store, downstream |-> TRUE, status |-> d.status,
            body |-> d.body, xcache |-> "none"]

\* chain.handle(request) on the chain [cache, handlers]: the reply and its
\* X-Cache header.  Per key the record keeps the last reply with a cacheable
\* status that came from downstream and how (returned or stopped), and
\* whether a reply has been served as STALE since; the request keeps what
\* the record of its key was when it arrived.
CacheRequest ==
  \E key \in StoreKeys, kind \in {"ok", "notFound", "stop"} :
    LET d == Downstream(kind, now)
        r == cache(cfg, store, key, now, d)
    IN  /\ store' = r.store
        /\ last' = [op |-> "request", key |-> key, at |-> now, kind |-> kind,
                    downstream |-> r.downstream, status |-> r.status,
                    body |-> r.body, xcache |-> r.xcache,
                    prior |-> hist[key]]
        /\ hist' = [hist EXCEPT ![key] =
                      IF r.downstream /\ r.status \in statusCodes
                      THEN [from |-> IF kind = "stop" THEN "stopped"
                                     ELSE "returned",
                            at |-> now, status |-> r.status, body |-> r.body,
                            staleServed |-> FALSE]
                      ELSE [@ EXCEPT !.staleServed = @ \/ r.xcache = "STALE"]]
        /\ UNCHANGED <<vars, more, adapterVars, timeoutVars, now, cfg>>

\* cache({ttl, stale}) with its default MemoryStore, no request made.
InitCache ==
  /\ createChain /\ AdapterIdle /\ TimeoutIdle /\ MoreIdle
  /\ now = 0
  /\ store = [k \in StoreKeys |-> NoEntry]
  /\ cfg \in [ttl : 1..MaxTtl, stale : 0..MaxStale]
  /\ last = [op |-> "none", key |-> "a", at |-> 0, kind |-> "ok",
             downstream |-> FALSE, status |-> 0, body |-> <<>>,
             xcache |-> "none",
             prior |-> [from |-> "none", at |-> 0, status |-> 0,
                        body |-> <<>>, staleServed |-> FALSE]]
  /\ hist = [k \in StoreKeys |->
               [from |-> "none", at |-> 0, status |-> 0, body |-> <<>>,
                staleServed |-> FALSE]]

NextCache ==
  \/ CacheRequest
  \/ Cleanup
  \/ AdvanceTime

SpecCache == InitCache /\ [][NextCache]_storeVars

\* ------------------------------------------------------ properties of cache
\* Time between the reply recorded for the key of the last request and that
\* request.
Age == last.at - last.prior.at

\* The last request was served what was recorded, without running
\* downstream.
ServedFromCache ==
  /\ ~last.downstream
  /\ last.xcache = "HIT"
  /\ last.status = last.prior.status
  /\ last.body = last.prior.body

\* The last request ran downstream again, and is marked MISS.
RanDownstream ==
  /\ last.downstream
  /\ last.body = <<"content", last.at>>
  /\ last.xcache = "MISS"

\* C19 as stated: a request whose key got a reply with a cacheable status
\* from downstream before is served that reply from the cache (X-Cache: HIT)
\* without running downstream while ttl has not elapsed, and runs downstream
\* again, marked X-Cache: MISS, once ttl plus the stale window has elapsed.
C19_HitAfterAnyCacheable ==
  (last.op = "request" /\ last.prior.from # "none") =>
    /\ Age < cfg.ttl => ServedFromCache
    /\ Age >= cfg.ttl + cfg.stale => RanDownstream

\* C19, amended: a request whose key got a reply with a cacheable status
\* from a downstream that returned {done: false} is served that reply from
\* the cache (X-Cache: HIT) without running downstream while no more than
\* ttl has elapsed; once more than ttl plus the stale window has elapsed the
\* request runs downstream again, and is marked X-Cache: MISS exactly when
\* downstream returns {done: false} with a cacheable status.
C19_HitAfterReturned ==
  (last.op = "request" /\ last.prior.from # "none") =>
    /\ (last.prior.from = "returned" /\ Age <= cfg.ttl) => ServedFromCache
    /\ Age > cfg.ttl + cfg.stale =>
         /\ last.downstream
         /\ last.body = <<"content", last.at>>
         /\ last.xcache = "MISS" <=> last.kind = "ok"

\* A request has been served from the cache exactly ttl after downstream
\* returned the reply.
C19_Witness ==
  /\ last.op = "request"
  /\ last.prior.from = "returned"
  /\ ServedFromCache
  /\ Age = cfg.ttl

\* C20: a request that follows a reply served as STALE for its key is served
\* content fetched since the stale entry was cached: it is not served the
\* stale entry again.
C20_FreshAfterStale ==
  (last.op = "request" /\ last.prior.staleServed) =>
    last.body # last.prior.body

\* ------------------------------------- properties of logger and errorHandler
KindAt(k) == middlewares[k].kind

\* The entries the logger at position k handed to output() during call r.
LogEntries(r, k) ==
  {p \in 1..Len(order[r]) : order[r][p][1] = "log" /\ order[r][p][2] = k}

\* C21: every request that reaches logger() produces exactly one log entry,
\* also when the reply comes from a short-circuit by a handler registered
\* after the logger.
C21_OneLogEntryPerRequest ==
  \A k \in 1..Len(middlewares) :
    (Done(1) /\ SameChain(1) /\ KindAt(k) = "logger" /\ Entered(1, k)) =>
      Cardinality(LogEntries(1, k)) = 1

\* The kinds of errorHandler.
ErrorHandlers == {"errorHandler", "errorHandlerRethrow"}

\* In the finished call, the handler at j threw, errorHandler is registered
\* at k before it, and no other errorHandler is registered before j.
ThrownBelow(k, j) ==
  /\ Done(1) /\ SameChain(1)
  /\ k < j /\ j <= Len(middlewares)
  /\ KindAt(k) \in ErrorHandlers
  /\ KindAt(j) \in {"throw", "throwMiddlewareError"}
  /\ Entered(1, j)
  /\ \A i \in 1..(j - 1) : KindAt(i) \in ErrorHandlers => i = k

\* C22: with errorHandler registered upstream of a handler that throws, a
\* MiddlewareError becomes a reply with the error's statusCode; any other
\* error becomes a 500 reply when catch is true and rejects handle() with
\* that error when catch is false.
C22_ErrorBecomesReply ==
  \A k, j \in 1..Len(middlewares) :
    ThrownBelow(k, j) =>
      IF KindAt(j) = "throwMiddlewareError"
      THEN result[1].t = "ok" /\ result[1].response.status = 400
      ELSE IF KindAt(k) = "errorHandler"
      THEN result[1].t = "ok" /\ result[1].response.status = 500
      ELSE /\ result[1].t = "throw"
           /\ result[1].error = ErrorOf("Error", 0, NoResponse, j)

\* errorHandler() has turned a MiddlewareError thrown two handlers below it
\* into the reply.
C22_Witness ==
  /\ ThrownBelow(1, 3)
  /\ KindAt(1) = "errorHandler"
  /\ KindAt(3) = "throwMiddlewareError"
  /\ result[1].t = "ok"
  /\ result[1].response.status = 400

\* ================================================================== clone
\* The most handlers a chain is given where chains are cloned.
MaxCloneHandlers == 3

\* The handlers of the clone test: ctx.state.value += 1 and += 10, each
\* awaiting next().
CloneHandlers == {"plus1", "plus10"}

\* use(mw) on a handler array: a function is wrapped as
\* {name: `anonymous-${length}`, handler}, a Middleware object is pushed as
\* it is.
push(list, mw) ==
  Append(list, IF mw.isFunction
               THEN [isFunction |-> FALSE, name |-> <<"anonymous", Len(list)>>,
                     handler |-> mw.handler]
               ELSE mw)

\* use(...mws): one push after the other.
RECURSIVE pushAll(_, _)
pushAll(list, mws) ==
  IF mws = <<>> THEN list ELSE pushAll(push(list, Head(mws)), Tail(mws))

\* The handler functions of an array, in order.
HandlersOf(list) == [k \in 1..Len(list) |-> list[k].handler]

\* A clone that holds the array of the chain it was cloned from.
cloneSharingArray(arrs, a) == [arrays |-> arrs, address |-> a]

\* clone(): createChain() allocates an array of its own, and
\* cloned.use(...middlewares) pushes the original's Middleware objects.
clone(arrs, a) ==
  [arrays |-> Append(arrs, pushAll(<<>>, arrs[a])), address |-> Len(arrs) + 1]

\* chain.use(fn) on the original (c = 1) or the clone (c = 2).
ChainUse(c) ==
  /\ c \in DOMAIN chainOf
  /\ Len(arrays[chainOf[c]]) < MaxCloneHandlers
  /\ \E f \in CloneHandlers :
       /\ arrays' = [arrays EXCEPT ![chainOf[c]] =
                       push(@, [isFunction |-> TRUE, handler |-> f])]
       /\ usedOn' = [usedOn EXCEPT ![c] = Append(@, f)]
  /\ UNCHANGED <<cloneOthers, chainOf, executed>>

\* const cloned = original.clone()
Clone ==
  /\ Len(chainOf) = 1
  /\ LET c == clone(arrays, chainOf[1])
     IN  /\ arrays' = c.arrays
         /\ chainOf' = Append(chainOf, c.address)
  /\ usedOn' = Append(usedOn, HandlersOf(arrays[chainOf[1]]))
  /\ executed' = Append(executed, <<>>)
  /\ UNCHANGED cloneOthers

\* chain.handle(request) on chain c: executeChain walks the chain's array
\* from its first handler, every handler awaiting next().
ChainHandle(c) ==
  /\ c \in DOMAIN chainOf
  /\ executed' = [executed EXCEPT ![c] = HandlersOf(arrays[chainOf[c]])]
  /\ UNCHANGED <<cloneOthers, arrays, chainOf, usedOn>>

\* const original = createChain(): one chain with an empty array.
InitClone ==
  /\ CloneOthersIdle
  /\ arrays = << <<>> >>
  /\ chainOf = <<1>>
  /\ usedOn = << <<>> >>
  /\ executed = << <<>> >>

NextClone ==
  \/ \E c \in {1, 2} : ChainUse(c)
  \/ Clone
  \/ \E c \in {1, 2} : ChainHandle(c)

SpecClone == InitClone /\ [][NextClone]_cloneVars

\* ------------------------------------------------------ properties of clone
IsPrefix(s, t) == Len(s) <= Len(t) /\ SubSeq(t, 1, Len(s)) = s

\* C23: each chain's handler list holds exactly the handlers of the original
\* at the time of cloning (for the clone) followed by the handlers given to
\* its own use(), and its handle() ran only those: use() on the clone never
\* changes the original's list or what its handle() executes, and use() on
\* the original after cloning never changes the clone.
C23_CloneIsIndependent ==
  \A c \in DOMAIN chainOf :
    /\ HandlersOf(arrays[chainOf[c]]) = usedOn[c]
    /\ IsPrefix(executed[c], usedOn[c])

\* Original and clone were each given a different handler after cloning, and
\* the original's handle() has run its own two handlers.
C23_Witness ==
  /\ Len(chainOf) = 2
  /\ Len(usedOn[1]) = 2 /\ Len(usedOn[2]) = 2
  /\ usedOn[1][2] # usedOn[2][2]
  /\ executed[1] = usedOn[1]

\* ======================================================== response builder
\* The most replies built between two writes to the builder.
MaxBuilds == 2

\* Status codes, header values and bodies the builder is given.
BuilderStatuses == {200, 201, 404}
BuilderValues == {"v1", "v2"}

\* deleteHeader(name)
deleteHeader(b, name) == [b EXCEPT !.headers = {h \in @ : h[1] # name}]

\* A build() that hands its body over to the reply and keeps none.
buildCallMovingBody(b) ==
  [reply |-> build(b), builder |-> [b EXCEPT !.body = "null"]]

\* One call of build(): the reply it returns and the builder it leaves.
\* new Response(_body, {status: _status, headers: _headers}) reads the three
\* fields and copies the headers; nothing is assigned.
buildCall(b) == [reply |-> build(b), builder |-> b]

\* setStatus, setHeader, deleteHeader, json or redirect: the builder is
\* written to, so the replies built before say nothing about it any more.
Mutate ==
  /\ \E code \in BuilderStatuses, v \in BuilderValues :
       builder' \in {setStatus(builder, code),
                     setHeader(builder, "x-custom", v),
                     deleteHeader(builder, "x-custom"),
                     json(builder, v),
                     redirect(builder, v, 302)}
  /\ builder' # builder
  /\ snapshots' = <<>>
  /\ UNCHANGED builderOthers

\* ctx.response.build()
Build ==
  /\ Len(snapshots) < MaxBuilds
  /\ LET c == buildCall(builder)
     IN  /\ builder' = c.builder
         /\ snapshots' = Append(snapshots,
                                [reply |-> c.reply, before |-> builder,
                                 after |-> c.builder])
  /\ UNCHANGED builderOthers

\* createResponseBuilder()
InitBuilder ==
  /\ BuilderOthersIdle
  /\ builder = createResponseBuilder
  /\ snapshots = <<>>

NextBuilder ==
  \/ Mutate
  \/ Build

SpecBuilder == InitBuilder /\ [][NextBuilder]_builderVars

MaxContexts == 2
MaxIpHeaders == 2

\* headers.get(name): null when the request has no such header.
Null == [null |-> TRUE, value |-> <<>>]
Str(v) == [null |-> FALSE, value |-> v]
headersGet(headers, name) ==
  IF name \in DOMAIN headers THEN Str(headers[name]) ELSE Null

\* The header names extractRequestId looks at, in its order.
idHeaders == <<"x-request-id", "x-correlation-id", "request-id">>

\* `a || b || c || undefined` over the three headers: null and the empty
\* string are both falsy.
RECURSIVE firstTruthy(_, _, _)
firstTruthy(headers, names, i) ==
  IF i > Len(names) THEN Null
  ELSE LET v == headersGet(headers, names[i])
       IN  IF ~v.null /\ v.value # "" THEN v
           ELSE firstTruthy(headers, names, i + 1)

extractRequestId(headers) == firstTruthy(headers, idHeaders, 1)

\* What crypto.randomUUID() can return.
UUIDs == {"uuid-1", "uuid-2", "uuid-3"}

Range(f) == {f[x] : x \in DOMAIN f}

\* Text is held as the sequence of its characters.
Digits == <<"0", "1", "2", "3", "4", "5", "6", "7", "8", "9">>
HexLetters == {"a", "b", "c", "d", "e", "f"}
IsDigit(c) == c \in Range(Digits)
IsHex(c) == IsDigit(c) \/ c \in HexLetters
Includes(text, c) == \E i \in 1..Len(text) : text[i] = c

\* text.split(sep)
RECURSIVE split(_, _)
split(text, sep) ==
  IF text = <<>> THEN << <<>> >>
  ELSE LET rest == split(Tail(text), sep)
       IN  IF Head(text) = sep THEN << <<>> >> \o rest
           ELSE << <<Head(text)>> \o Head(rest) >> \o Tail(rest)

\* parseInt(n, 10) of a run of digits.
RECURSIVE parseInt(_)
parseInt(n) ==
  IF n = <<>> THEN 0
  ELSE 10 * parseInt(SubSeq(n, 1, Len(n) - 1))
       + (CHOOSE d \in 0..9 : Digits[d + 1] = n[Len(n)])

\* /^(\d{1,3}\.){3}\d{1,3}$/.test(ip)
IPv4Pattern(ip) ==
  LET p == split(ip, ".")
  IN  /\ Len(p) = 4
      /\ \A i \in 1..4 : /\ Len(p[i]) \in 1..3
                         /\ \A j \in 1..Len(p[i]) : IsDigit(p[i][j])

\* /^([0-9a-fA-F]{0,4}:){2,7}[0-9a-fA-F]{0,4}$/.test(ip): two to seven
\* colons, and at most four hex digits before, between and after them.
IPv6Pattern(ip) ==
  LET p == split(ip, ":")
  IN  /\ Len(p) - 1 \in 2..7
      /\ \A i \in 1..Len(p) : /\ Len(p[i]) <= 4
                              /\ \A j \in 1..Len(p[i]) : IsHex(p[i][j])

\* isValidIP(ip)
isValidIP(ip) ==
  IF IPv4Pattern(ip)
  THEN \A n \in Range(split(ip, ".")) : parseInt(n) >= 0 /\ parseInt(n) <= 255
  ELSE IF Includes(ip, ":")
  THEN \/ IPv6Pattern(ip)
       \/ ip = <<":", ":", "1">>
       \/ ip = <<":", ":">>
  ELSE FALSE

\* The header names extractClientIP looks at, in its order.
ipHeaders ==
  <<"cf-connecting-ip", "x-real-ip", "x-forwarded-for", "x-client-ip",
    "true-client-ip">>

\* The loop of extractClientIP from header i on.  A header value is held as
\* its comma-separated entries, trimmed, so value.split(',')[0]?.trim() is
\* its first entry; the value is the empty string when its only entry is.
RECURSIVE clientIPFrom(_, _)
clientIPFrom(headers, i) ==
  IF i > Len(ipHeaders) THEN Null
  ELSE LET v == headersGet(headers, ipHeaders[i])
           ip == v.value[1]
       IN  IF ~v.null /\ v.value # << <<>> >> /\ ip # <<>> /\ isValidIP(ip)
           THEN Str(ip)
           ELSE clientIPFrom(headers, i + 1)

extractClientIP(headers) == clientIPFrom(headers, 1)

\* An identifier taken from the first header that has one.
createRequestMetaKeepingEmpty(headers, uuid) ==
  LET present == {i \in 1..Len(idHeaders) : idHeaders[i] \in DOMAIN headers}
  IN  [created |-> TRUE,
       id |-> IF present = {} THEN uuid
              ELSE headers[idHeaders[CHOOSE i \in present :
                                       \A j \in present : i <= j]],
       generated |-> present = {},
       ip |-> extractClientIP(headers)]

\* createRequestMeta(request, url), its id and ip: generateUUID() is only
\* called, and returns uuid, when extractRequestId gives nothing.
createRequestMeta(headers, uuid) ==
  LET id == extractRequestId(headers)
  IN  [created |-> TRUE,
       id |-> IF id.null THEN uuid ELSE id.value,
       generated |-> id.null,
       ip |-> extractClientIP(headers)]

\* Values of the request-id headers in the tests, and the empty value.
IdValues == {"", "custom-id-123", "corr-id-456"}

\* Requests that differ in their request-id headers.
IdRequests ==
  UNION {[names -> IdValues] : names \in SUBSET Range(idHeaders)}

\* Candidate addresses: 1.2.3.4, 10.0.0.1, 1.2.3.999, ::1, 1:2:3,
\* ::ffff:1.2.3.4 and the word "unknown".
Dotted == <<"1", ".", "2", ".", "3", ".", "4">>
Private == <<"1", "0", ".", "0", ".", "0", ".", "1">>
Over255 == <<"1", ".", "2", ".", "3", ".", "9", "9", "9">>
Loopback6 == <<":", ":", "1">>
ThreeGroups == <<"1", ":", "2", ":", "3">>
Mapped == <<":", ":", "f", "f", "f", "f", ":">> \o Dotted
Unknown == <<"u", "n", "k", "n", "o", "w", "n">>

\* Values of the proxy headers: one address, a forwarded-for chain, an
\* empty value.
IpValues ==
  {<<Dotted>>, <<Dotted, Private>>, <<Over255, Private>>, <<Loopback6>>,
   <<ThreeGroups>>, <<Mapped>>, <<Unknown>>, << <<>> >>}

\* Requests that differ in their proxy headers.
IpRequests ==
  UNION {[names -> IpValues] :
           names \in {n \in SUBSET Range(ipHeaders) :
                        Cardinality(n) <= MaxIpHeaders}}

\* createContext(request) for one of the requests.  crypto.randomUUID()
\* returns an identifier it has not returned before.
CreateContext(requests) ==
  /\ Len(issued) < MaxContexts
  /\ \E request \in requests, uuid \in UUIDs \ Range(issued) :
       /\ mrequest' = request
       /\ meta' = createRequestMeta(request, uuid)
       /\ issued' = IF meta'.generated THEN Append(issued, uuid) ELSE issued
  /\ UNCHANGED metaOthers

InitMeta ==
  /\ MetaOthersIdle
  /\ mrequest = <<>>
  /\ meta = [created |-> FALSE]
  /\ issued = <<>>

NextRequestId == CreateContext(IdRequests)

SpecRequestId == InitMeta /\ [][NextRequestId]_metaVars

\* The address is derived from the request alone: one Context is enough.
NextClientIP == ~meta.created /\ CreateContext(IpRequests)

SpecClientIP == InitMeta /\ [][NextClientIP]_metaVars

\* ------------------------------------------------ properties of createContext
\* The request-id headers that the request carries, and those it carries
\* with a value that is not empty.
PresentId == {i \in 1..Len(idHeaders) : idHeaders[i] \in DOMAIN mrequest}
NonEmptyId == {i \in PresentId : mrequest[idHeaders[i]] # ""}
First(S) == CHOOSE i \in S : \A j \in S : i <= j

\* The identifier was generated for this Context: it is not empty and no
\* earlier Context was given it.
FreshId ==
  /\ meta.id \in UUIDs
  /\ meta.id # ""
  /\ issued # <<>>
  /\ issued[Len(issued)] = meta.id
  /\ \A p \in 1..(Len(issued) - 1) : issued[p] # meta.id

\* C25 as stated: meta.id is the value of the first header present among
\* x-request-id, x-correlation-id and request-id; if none is present it is a
\* fresh, non-empty identifier.
C25_FirstPresentHeader ==
  meta.created =>
    IF PresentId # {} THEN meta.id = mrequest[idHeaders[First(PresentId)]]
    ELSE FreshId

\* C25, amended: meta.id is the value of the first header among
\* x-request-id, x-correlation-id and request-id that is present with a
\* value that is not empty; if there is none it is a fresh, non-empty
\* identifier.
C25_FirstNonEmptyHeader ==
  meta.created =>
    IF NonEmptyId # {} THEN meta.id = mrequest[idHeaders[First(NonEmptyId)]]
    ELSE FreshId

\* A request with an empty x-request-id and a correlation id has been given
\* the correlation id.
C25_Witness ==
  /\ meta.created
  /\ DOMAIN mrequest = {"x-request-id", "x-correlation-id"}
  /\ mrequest["x-request-id"] = ""
  /\ meta.id = "corr-id-456"

\* Syntactically valid dotted-quad IPv4: four decimal numbers of one to
\* three digits, none above 255.
ValidIPv4(ip) ==
  /\ IPv4Pattern(ip)
  /\ \A n \in Range(split(ip, ".")) : parseInt(n) <= 255

\* One group of an IPv6 address: one to four hex digits.
HexGroup(g) == Len(g) \in 1..4 /\ \A j \in 1..Len(g) : IsHex(g[j])

\* Syntactically valid IPv6 text (RFC 4291, 2.2): eight groups, or fewer
\* with one "::", the last two groups possibly written as dotted IPv4.
ValidIPv6(ip) ==
  LET p == split(ip, ":")
      n == Len(p)
      empty == {i \in 1..n : p[i] = <<>>}
      v4 == n >= 1 /\ ValidIPv4(p[n])
      groups == Cardinality((1..n) \ empty) + (IF v4 THEN 1 ELSE 0)
  IN  /\ \A i \in (1..n) \ empty : HexGroup(p[i]) \/ (i = n /\ v4)
      /\ \/ empty = {} /\ groups = 8
         \/ /\ groups <= 7
            /\ \/ \E i \in 2..(n - 1) : empty = {i}
               \/ n >= 3 /\ empty = {1, 2}
               \/ n >= 3 /\ empty = {n - 1, n}
               \/ n = 3 /\ empty = {1, 2, 3}

ValidIP(ip) == ValidIPv4(ip) \/ ValidIPv6(ip)

\* The proxy headers whose first entry is a valid address.
ValidCandidates ==
  {i \in 1..Len(ipHeaders) :
     /\ ipHeaders[i] \in DOMAIN mrequest
     /\ ValidIP(mrequest[ipHeaders[i]][1])}

\* C26: meta.ip is the first entry of the first proxy header, in the fixed
\* order, whose first entry is a syntactically valid IPv4 or IPv6 address,
\* and is absent if no header has one.
C26_FirstValidAddress ==
  meta.created =>
    IF ValidCandidates # {}
    THEN meta.ip = Str(mrequest[ipHeaders[First(ValidCandidates)]][1])
    ELSE meta.ip = Null

\* ============================================================= bodyParser
\* The largest request body and the largest configured limit, in bytes.
MaxBodySize == 3
MaxBodyLimit == 2

\* DEFAULTS of bodyParser, in bytes ('1mb', '5mb').
DEFAULTS ==
  [json |-> 1024 * 1024, form |-> 1024 * 1024, text |-> 1024 * 1024,
   raw |-> 5 * 1024 * 1024]

\* The body kinds bodyParser tells apart by Content-Type; "raw" stands for
\* any other type.
BodyKinds == {"json", "form", "text", "raw"}

\* parseSize(options.limit || DEFAULTS.<kind>Limit): a limit of 0 is falsy.
limitOf(kind, limit) == IF limit = 0 THEN DEFAULTS[kind] ELSE limit

\* readBody(request, limit): the error thrown for a body over the limit is
\* caught by readBody's own catch, which returns null.
readBody(request, limit) ==
  IF request.size > limit THEN [null |-> TRUE, size |-> 0]
  ELSE [null |-> FALSE, size |-> request.size]

NoBody == [present |-> FALSE, size |-> 0]

\* parseJsonBody, parseFormBody, parseTextBody: `if (rawBody)` passes over
\* null and the empty string; JSON.parse throws on malformed text.
parseTextual(kind, request, limit) ==
  LET rawBody == readBody(request, limitOf(kind, limit))
  IN  IF rawBody.null \/ rawBody.size = 0
      THEN [throws |-> FALSE, body |-> NoBody]
      ELSE IF kind = "json" /\ ~request.wellFormed
      THEN [throws |-> TRUE, body |-> NoBody]
      ELSE [throws |-> FALSE, body |-> [present |-> TRUE, size |-> rawBody.size]]

\* parseRawBody: the error thrown for a body over the limit is caught by
\* the function's own catch.
parseRawBody(request, limit) ==
  IF request.size > limitOf("raw", limit)
  THEN [throws |-> FALSE, body |-> NoBody]
  ELSE [throws |-> FALSE, body |-> [present |-> TRUE, size |-> request.size]]

\* bodyParser({<kind>: {limit}}).handler(ctx, next): what ends up in
\* ctx.state.body, the status of ctx.response, whether next() was called
\* and whether the handler returned {done: true}.
bodyParser(request, limit) ==
  IF request.method \in {"GET", "HEAD", "OPTIONS"}
  THEN [called |-> TRUE, body |-> NoBody, status |-> 200, next |-> TRUE,
        done |-> FALSE]
  ELSE LET p == IF request.kind = "raw" THEN parseRawBody(request, limit)
                ELSE parseTextual(request.kind, request, limit)
       IN  IF p.throws
           THEN [called |-> TRUE, body |-> NoBody, status |-> 400,
                 next |-> FALSE, done |-> TRUE]
           ELSE [called |-> TRUE, body |-> p.body, status |-> 200,
                 next |-> TRUE, done |-> FALSE]

\* The requests bodyParser is given.
BodyRequests ==
  [method : {"POST", "GET"}, kind : BodyKinds, size : 0..MaxBodySize,
   wellFormed : BOOLEAN]

\* chain.handle(request) on createChain().use(bodyParser({...limit})).
ParseBody ==
  /\ \E request \in BodyRequests, limit \in 0..MaxBodyLimit :
       /\ bpRequest' = request
       /\ bpLimit' = limit
       /\ bpOutcome' = bodyParser(request, limit)
  /\ UNCHANGED parserOthers

InitParser ==
  /\ ParserOthersIdle
  /\ bpRequest = <<>>
  /\ bpLimit = 0
  /\ bpOutcome = [called |-> FALSE]

NextParser == ParseBody

SpecParser == InitParser /\ [][NextParser]_parserVars

\* C27: a JSON, form, text or raw body larger than its limit is rejected
\* with a 400 short-circuit reply, is not placed in ctx.state, and the
\* handlers after bodyParser are not invoked.
C27_OversizedRejected ==
  (/\ bpOutcome.called
   /\ bpRequest.method = "POST"
   /\ bpRequest.size > limitOf(bpRequest.kind, bpLimit)) =>
    /\ bpOutcome.done
    /\ bpOutcome.status = 400
    /\ ~bpOutcome.next
    /\ ~bpOutcome.body.present


\* ------------------------------------- timeout and what downstream raises
\* What handle() settles with when the slow handler of call c ends on its
\* own and nothing but that handler has written to the response.
DownstreamOutcome(c) ==
  CASE c.ends = "returns" -> Fulfilled(FALSE, DownstreamReply)
    [] c.ends = "throws" -> Rejected(ErrorOf("Error", 0, NoResponse, 2))
    [] c.ends = "throwsTimeoutError" ->
         Rejected(ErrorOf("TimeoutError", 408, NoResponse, 2))
    [] c.ends = "stops" ->
         Fulfilled(FALSE, build(stopWrites(createResponseBuilder)))

\* C28: when the slow handler throws or short-circuits before the duration
\* has elapsed, handle() settles with exactly that error or that reply, and
\* timeout has written nothing to the response: a TimeoutError thrown
\* downstream is re-thrown as it is, never answered with the timeout reply.
C28_DownstreamPassesThrough ==
  (tpc = "settled" /\ ~TimedOutFirst /\ tcall.ends # "returns") =>
    /\ tresult = DownstreamOutcome(tcall)
    /\ ~timedOut
    /\ tcall.ends # "stops" => tctx = createResponseBuilder

\* The slow handler slept, then threw a TimeoutError of its own before the
\* duration had elapsed, and handle() has rejected with that error.
C28_Witness ==
  /\ tpc = "settled"
  /\ tcall.ends = "throwsTimeoutError"
  /\ 0 < tcall.delay /\ tcall.delay < tcall.duration
  /\ tresult.t = "throw"
  /\ tresult.error.class = "TimeoutError"
  /\ tresult.error.origin = 2

\* C29: once the timeout handler has left, by next() returning, by an error
\* or a short-circuit from downstream, or by the timeout answering, its
\* timer is not armed any more: it has been cleared or it has fired.
C29_TimerCleared ==
  tpc # "racing" => timer # "armed"

\* The slow handler threw before the duration had elapsed and the timer has
\* been cleared without having fired.
C29_Witness ==
  /\ tpc = "settled"
  /\ tcall.ends = "throws"
  /\ elapsed < tcall.duration
  /\ tresult.t = "throw"
  /\ timer = "cleared"
  /\ ~timedOut

\* ================================================ rateLimit, concurrently
\* The most requests in flight together.
MaxInflight == 3

Requesters == 1..MaxInflight

\* The key every request is counted under (the default keyGenerator's, for
\* requests from one address).
RaceKey == "a"

\* A request not yet made, and an entry object not yet allocated.
NoRequest ==
  [pc |-> "idle", now |-> 0, found |-> FALSE, entry |-> 0, limited |-> FALSE,
   window |-> 0, passed |-> FALSE]
NoObject == [count |-> 0, resetAt |-> 0]

\* handler, from its entry to `await store.get(key)`: Date.now() is taken
\* and MemoryStore.get runs, which hands out the stored entry object itself
\* (not a copy), or undefined; the request is counted into the window open
\* at its arrival.
Arrive(r) ==
  /\ inflight[r].pc = "idle"
  /\ r > 1 => inflight[r - 1].pc # "idle"
  /\ LET g == get(store, RaceKey, now)
         w == WindowAfter(hist[RaceKey], cfg, now)
     IN  /\ store' = g.store
         /\ hist' = [hist EXCEPT ![RaceKey] = w]
         /\ inflight' = [inflight EXCEPT ![r] =
              [@ EXCEPT !.pc = "atGet", !.now = now, !.found = g.found,
                        !.entry = IF g.found THEN g.value ELSE 0,
                        !.window = w.start]]
  /\ UNCHANGED <<raceOthers, now, cfg, last, objects>>

\* handler, from the resumption after store.get to `await store.set(...)`:
\* a new entry object is allocated when none was found or its resetAt has
\* passed, entry.count++ is done on the object the request holds, and
\* MemoryStore.set puts that object under the key, when the count exceeds
\* max and when it does not.
Count(r) ==
  /\ inflight[r].pc = "atGet"
  /\ LET q == inflight[r]
         fresh == ~q.found \/ q.now > objects[q.entry].resetAt
         id == IF fresh THEN r ELSE q.entry
         entry == IF fresh
                  THEN [count |-> 0, resetAt |-> q.now + cfg.window]
                  ELSE objects[id]
         counted == [entry EXCEPT !.count = @ + 1]
     IN  /\ objects' = [objects EXCEPT ![id] = counted]
         /\ store' = set(store, RaceKey, id, cfg.window, now)
         /\ inflight' = [inflight EXCEPT ![r] =
              [@ EXCEPT !.pc = "atSet", !.entry = id,
                        !.limited = counted.count > cfg.max]]
  /\ UNCHANGED <<raceOthers, now, cfg, last, hist>>

\* handler, from the resumption after store.set: the limited request is
\* answered with 429, any other goes on to `await next()`.
Proceed(r) ==
  /\ inflight[r].pc = "atSet"
  /\ inflight' = [inflight EXCEPT ![r] =
       [@ EXCEPT !.pc = "done", !.passed = ~inflight[r].limited]]
  /\ UNCHANGED <<raceOthers, storeVars, objects>>

\* rateLimit({max, window}) with its default MemoryStore, no request made.
InitRace ==
  /\ RaceOthersIdle
  /\ now = 0
  /\ store = [k \in StoreKeys |-> NoEntry]
  /\ cfg \in [max : 1..MaxLimit, window : 1..MaxWindow]
  /\ last = [op |-> "none", key |-> "a", at |-> 0, downstream |-> FALSE,
             status |-> 0]
  /\ hist = [k \in StoreKeys |->
               [open |-> FALSE, start |-> 0, n |-> 0, restarted |-> FALSE,
                blocked |-> FALSE]]
  /\ objects = [i \in Requesters |-> NoObject]
  /\ inflight = [i \in Requesters |-> NoRequest]

NextRace ==
  \/ \E r \in Requesters : Arrive(r)
  \/ \E r \in Requesters : Count(r)
  \/ \E r \in Requesters : Proceed(r)
  \/ AdvanceTime

SpecRace == InitRace /\ [][NextRace]_<<storeVars, raceVars>>

\* The requests of the window opened at time s that went on to next().
PassedIn(s) ==
  {r \in Requesters : inflight[r].passed /\ inflight[r].window = s}

\* C30: however the requests for one key are interleaved at the awaits of
\* store.get and store.set, at most max of the requests of one window go on
\* to the downstream handlers.
C30_AtMostMaxPerWindow ==
  \A s \in 0..MaxNow : Cardinality(PassedIn(s)) <= cfg.max

\* ============================================== next() called repeatedly
\* The most handlers and calls where a handler calls next() twice.
MaxNextHandlers == 3
MaxNextCalls == 2

\* What use() is called with: a handler that awaits next() twice, and
\* handlers that call it once or not at all.
NextInputs ==
  [isFunction : {TRUE}, name : {"fn"}, onInit : {FALSE},
   kind : {"twice", "wrap", "noop", "setter"}]

NextTwice ==
  \/ \E mw \in NextInputs : Use(mw, MaxNextHandlers)
  \/ Handle(1, MaxNextCalls)
  \/ Step(1)

SpecTwice == Init /\ [][NextTwice]_vars

\* The number of times handler k was entered in call r.
Entries(r, k) ==
  Cardinality({p \in 1..Len(order[r]) : order[r][p] = <<"enter", k>>})

\* C31: within one handle() call every handler is entered at most once, and
\* a handler that is running was invoked by the next() of the handler
\* registered just before it: in the nest of running handlers each one
\* follows its caller in the list directly, so a repeated next() never
\* starts a handler further down.
C31_EnteredFromPredecessor ==
  \A r \in Slots :
    /\ \A k \in 1..Len(middlewares) : Entries(r, k) <= 1
    /\ \A p \in 2..Len(stack[r]) : stack[r][p].mw = stack[r][p - 1].mw + 1

\* ------------------------------------------------ hooks of late handlers
\* The onInit hook of handler k has run on this chain.
HookRan(k) == \E q \in 1..Len(initLog) : initLog[q] = k

\* C32: every handler that a call has entered and that has an onInit hook
\* has had that hook run on the chain, also when it was added with use()
\* after the chain had served a call.
C32_InitBeforeInvoke ==
  \A r \in Slots : \A k \in 1..Len(middlewares) :
    (Entered(r, k) /\ middlewares[k].onInit) => HookRan(k)

\* ===================================================== a hook that throws
\* The most handlers and calls where an onInit hook throws.
MaxHookHandlers == 3
MaxHookCalls == 3

\* What use() is called with: Middleware objects whose hook returns or
\* throws, and a function without a hook.
HookInputs ==
  {[isFunction |-> FALSE, name |-> "init-once", kind |-> "wrap", onInit |-> TRUE],
   [isFunction |-> FALSE, name |-> "init-fails", kind |-> "wrap", onInit |-> TRUE],
   [isFunction |-> TRUE, name |-> "fn", kind |-> "setter", onInit |-> FALSE]}

NextHook ==
  \/ \E mw \in HookInputs : Use(mw, MaxHookHandlers)
  \/ Handle(1, MaxHookCalls)
  \/ Step(1)

SpecHook == Init /\ [][NextHook]_vars

\* None of HookInputs has a handler that throws: a rejected call was
\* rejected by a hook.  It has no Context and has invoked no handler, and
\* the chain is not marked as started.
HookFailureStopsCall ==
  \A r \in Slots :
    pc[r] = "rejected" =>
      /\ result[r].error.origin = initPos[r]
      /\ hookThrows(middlewares[initPos[r]])
      /\ ctxOf[r] = 0
      /\ order[r] = <<>>
      /\ stack[r] = <<>>
      /\ ~initialized

\* C33: when an onInit hook throws, the call is rejected without a Context
\* and without any handler invoked, the chain is not marked as started, and
\* a later call does not run again the hooks that had completed: no hook
\* that returns runs more than once.
C33_HookFailure ==
  /\ HookFailureStopsCall
  /\ \A r \in Slots : pc[r] = "init" => ctxOf[r] = 0 /\ order[r] = <<>>
  /\ \A k \in 1..Len(middlewares) :
       ~hookThrows(middlewares[k]) => InitCount(k) <= 1

\* --------------------------------------------- the reply once returned
\* C34: handle() settles once per call, and what it settled with stays as
\* it is until the caller makes the next call: the reply is changed neither
\* by the timeout handler nor by what the orphaned slow handler and the
\* handler after it write to the response builder afterwards.
C34_ReplyIsFixed ==
  [][tresult' # tresult =>
       \/ tpc = "racing" /\ tresult = Pending /\ tpc' = "settled"
       \/ tpc = "settled" /\ tpc' = "idle" /\ tresult' = Pending]_timeoutVars

\* handle() has returned the 504 reply; afterwards the slow handler has
\* written its body and the last handler its header to the response
\* builder, which now differs from the reply.
C34_Witness ==
  /\ tpc = "settled"
  /\ timedOut
  /\ tlog = <<<<"tail", TRUE>>>>
  /\ tresult.t = "ok"
  /\ tresult.response.status = 504
  /\ tresult.response.body = "{error:Request timeout,code:TIMEOUT_ERROR}"
  /\ has(build(tctx), "x-tail")
  /\ build(tctx) # tresult.response

\* ================================================ requestId and the cache
\* The most requests made through requestId and cache.
MaxTraced == 2

\* What generateUUID returns, call after call: identifiers never returned
\* before.
UuidSeq == <<"uuid-1", "uuid-2", "uuid-3", "uuid-4", "uuid-5", "uuid-6", "uuid-7", "uuid-8">>
generateUUID(used) == UuidSeq[Len(used) + 1]

\* Requests for one URL that carry X-Request-ID, X-Correlation-ID, both or
\* neither.
TracedRequests ==
  {h \in IdRequests :
     /\ DOMAIN h \subseteq {"x-request-id", "x-correlation-id"}
     /\ \A n \in DOMAIN h : h[n] # ""}

\* The handler of requestId() with its default options, up to its
\* `await next()`: the id is the X-Request-ID of the request or, without
\* one, what generator() returns (uuid); meta.id is overwritten only in the
\* first case; the id is set as the X-Request-ID of the response.
requestId(ctx, uuid) ==
  LET existingId == headersGet(ctx.request, "x-request-id")
      given == ~existingId.null /\ existingId.value # ""
      id == IF given THEN existingId.value ELSE uuid
  IN  [ctx |-> [ctx EXCEPT !.meta.id = IF given THEN existingId.value ELSE @,
                           !.response = setHeader(@, "x-request-id", id)],
       id |-> id, generated |-> ~given]

\* getResponseHeaders(ctx): every header of the response but X-Cache and
\* Cache-Control.
getResponseHeaders(b) ==
  {h \in b.headers : h[1] \notin {"x-cache", "cache-control"}}

\* for (const [name, value] of cached.headers) ctx.response.setHeader(name, value)
setHeaders(b, headers) ==
  [b EXCEPT !.headers =
     {h \in @ : \A c \in headers : c[1] # h[1]} \cup headers]

\* cache.handler serving a cached entry at time t: status, headers and body
\* of the entry are written over the response, then X-Cache.
serveCached(b, cached, t) ==
  setHeader([setHeaders(setStatus(b, cached.status), cached.headers)
               EXCEPT !.body = cached.body],
            "x-cache", IF isStale(cached, t) THEN "STALE" ELSE "HIT")

\* The entry cache.handler stores once next() has returned.
cacheEntry(c, b, t) ==
  [body |-> b.body, status |-> b.status, headers |-> getResponseHeaders(b),
   createdAt |-> t, expiresAt |-> t + c.ttl]

\* The tests' handler after requestId: ctx.response.json({id: ctx.meta.id}).
echoId(ctx) == [ctx EXCEPT !.response = json(@, ctx.meta.id)]

\* chain.handle(request) at time t on [requestId(), handler] or on
\* [requestId(), cache({ttl, stale}), handler] (c.withCache), generateUUID
\* having returned `used` so far: createContext, requestId, then the cache
\* serving its entry with {done: true}, or the handler and, with a
\* cacheable status, the cache storing the reply and marking it MISS.
traced(c, st, request, used, t) ==
  LET meta0 == createRequestMeta(request, generateUUID(used))
      used1 == IF meta0.generated THEN Append(used, generateUUID(used)) ELSE used
      rid == requestId([request |-> request, meta |-> meta0,
                        response |-> createResponseBuilder],
                       generateUUID(used1))
      used2 == IF rid.generated THEN Append(used1, generateUUID(used1)) ELSE used1
      g == get(st, "a", t)
      hit == /\ c.withCache /\ g.found
             /\ (~isStale(g.value, t) \/ isWithinStaleWindow(c, g.value, t))
      after == echoId(rid.ctx)
      cacheable == c.withCache /\ after.response.status \in statusCodes
  IN  IF hit
      THEN [store |-> g.store, used |-> used2, meta |-> rid.ctx.meta,
            id |-> rid.id, downstream |-> FALSE, seen |-> Null,
            reply |-> build(serveCached(rid.ctx.response, g.value, t))]
      ELSE [store |-> IF cacheable
                      THEN set(g.store, "a", cacheEntry(c, after.response, t),
                               c.ttl + c.stale, t)
                      ELSE IF c.withCache THEN g.store ELSE st,
            used |-> used2, meta |-> after.meta, id |-> rid.id,
            downstream |-> TRUE, seen |-> Str(after.meta.id),
            reply |-> build(IF cacheable
                            THEN setHeader(after.response, "x-cache", "MISS")
                            ELSE after.response)]

\* What the steps of these requests leave alone.
tracedOthers ==
  <<vars, adapterVars, timeoutVars, cloneVars, builderVars, parserVars, raceVars>>

\* One request, handled to its reply.
TracedRequest ==
  /\ last.n < MaxTraced
  /\ \E request \in TracedRequests :
       LET r == traced(cfg, store, request, issued, now)
       IN  /\ store' = r.store
           /\ issued' = r.used
           /\ mrequest' = request
           /\ meta' = r.meta
           /\ last' = [op |-> "request", n |-> last.n + 1, id |-> r.id,
                       downstream |-> r.downstream, seen |-> r.seen,
                       reply |-> r.reply]
  /\ UNCHANGED <<tracedOthers, now, cfg, hist>>

InitTraced ==
  /\ createChain /\ AdapterIdle /\ TimeoutIdle
  /\ CloneIdle /\ BuilderIdle /\ ParserIdle /\ RaceIdle
  /\ now = 0
  /\ store = [k \in StoreKeys |-> NoEntry]
  /\ cfg \in [withCache : BOOLEAN, ttl : 1..MaxTtl, stale : 0..MaxStale]
  /\ last = [op |-> "none", n |-> 0, id |-> "", downstream |-> FALSE,
             seen |-> Null, reply |-> NoResponse]
  /\ hist = [k \in StoreKeys |-> NoHist]
  /\ mrequest = <<>>
  /\ meta = [created |-> FALSE]
  /\ issued = <<>>

NextTraced ==
  \/ TracedRequest
  \/ AdvanceTime

SpecTraced == InitTraced /\ [][NextTraced]_<<storeVars, metaVars>>

\* The value of the reply's header `name`.
headerOf(response, name) ==
  IF has(response, name)
  THEN Str((CHOOSE h \in response.headers : h[1] = name)[2])
  ELSE Null

\* C35: a reply served from the cache carries the X-Request-ID of the
\* request it answers, not the one recorded from the request that filled
\* the cache.
C35_HitCarriesOwnId ==
  (last.op = "request" /\ cfg.withCache /\ ~last.downstream) =>
    headerOf(last.reply, "x-request-id") = Str(last.id)

\* C36: with requestId in the chain, the X-Request-ID of the reply is the
\* ctx.meta.id that the handlers after requestId (and the logger) see for
\* that request, whether the request carried the header or not.
C36_HeaderEqualsMetaId ==
  (last.op = "request" /\ last.downstream) =>
    /\ headerOf(last.reply, "x-request-id") = last.seen
    /\ last.seen = Str(meta.id)

====
